---- MODULE Spec2Model ----
(***************************************************************************)
(* Model of the per-session AssignerActor of the scheduling supervisor     *)
(* (services/scheduling/supervisor/assigner.py): the band list and its two *)
(* indexes, assign_subtasks (two loops around the chunk-meta lookup) and   *)
(* reassign_subtasks.                                                      *)
(*                                                                         *)
(* A band (address, name) is a record [addr, kind, idx]; its name is       *)
(* kind-idx ("numa-0", "gpu-1"), so name.startswith(prefix) is             *)
(* kind = prefix.  Python lists that are only tested for membership or     *)
(* sampled with np.random.choice are sets; np.random.choice is a           *)
(* nondeterministic choice.                                                *)
(***************************************************************************)
EXTENDS Integers, Sequences, FiniteSets, TLC

VARIABLES
    bands,                 \* self._bands
    address_to_bands,      \* self._address_to_bands
    device_type_to_bands,  \* self._device_type_to_bands
    a_pc,                  \* position of the assign_subtasks coroutine
    a_subtasks,            \* its argument subtasks
    a_exclude,             \* its argument exclude_bands
    a_rwu,                 \* its argument random_when_unavailable
    selected_bands,        \* its local selected_bands (subtask index -> bands)
    a_result,              \* what the call returned or raised
    r_in,                  \* argument band_to_queued_num of reassign_subtasks
    r_result,              \* what reassign_subtasks returned or raised
    cluster,               \* the cluster's band list and its version
    reachable,             \* whether the cluster API can be reached
    watch_reply,           \* the emission of watch_all_bands not yet consumed
    watch_last,            \* the last emission watch_bands has consumed
    lazy_reply,            \* the answer of get_all_bands not yet consumed
    bands_version,         \* the version of the snapshot _bands was set from
    sub_state,             \* SubtaskManager: the state of each subtask
    owner,                 \* the bands that own each subtask
    resched,               \* the reschedule count of each subtask
    sub_exclude,           \* the exclude_bands of each subtask
    queue,                 \* BandQueue of each band, head first
    free_slots,            \* GlobalResourceManager: free slots of each band
    ready,                 \* the bands the scheduler knows to be READY
    actors,                \* the session's actors that exist in the pool
    registered,            \* whether the autoscaler has the session
    s_pc,                  \* position of create_session / destroy_session
    s_tasks,               \* create and destroy coroutines in flight
    s_result,              \* how the last call of the service ended
    s_before               \* the actors when the last create_session began

vars == <<bands, address_to_bands, device_type_to_bands, a_pc, a_subtasks,
          a_exclude, a_rwu, selected_bands, a_result, r_in, r_result,
          cluster, reachable, watch_reply, watch_last, lazy_reply,
          bands_version, sub_state, owner, resched, sub_exclude, queue,
          free_slots, ready, actors, registered, s_pc, s_tasks, s_result,
          s_before>>

assigner_vars == <<bands, address_to_bands, device_type_to_bands>>
assign_vars == <<a_pc, a_subtasks, a_exclude, a_rwu, selected_bands, a_result>>
reassign_vars == <<r_in, r_result>>
cluster_vars == <<cluster, reachable, watch_reply, watch_last,
                  lazy_reply, bands_version>>
\* what the actions of the Assigner's two calls leave alone
sched_vars == <<sub_state, owner, resched, sub_exclude, queue, free_slots,
                ready>>
\* the session's actors and the calls of the supervisor service
session_vars == <<actors, registered, s_pc, s_tasks, s_result, s_before>>
rest_vars == <<cluster_vars, sched_vars, session_vars>>
\* everything of the Assigner, of the cluster and of the service
assigner_side == <<assigner_vars, assign_vars, reassign_vars, cluster_vars,
                   session_vars>>

----------------------------------------------------------------------------
(* Bounds of the model *)

\* largest store_size of a chunk meta
MaxStoreSize == 2
\* largest queued count of a band in the input of reassign_subtasks
MaxQueued == 3
\* largest version of the cluster's band list
MaxVersion == 3
\* number of subtasks of the batch given to the scheduler
NumSubtasks == 2

----------------------------------------------------------------------------
(* Bands *)

Band(a, k, i) == [addr |-> a, kind |-> k, idx |-> i]

AllBands ==
    { Band("A", "numa", 0), Band("A", "numa", 1), Band("B", "numa", 0),
      Band("A", "gpu", 0), Band("B", "gpu", 0) }

\* stands for "no band" in a record that reports an error
NoBand == Band("-", "-", 0)

\* band[1].startswith(prefix)
StartsWith(band, prefix) == band.kind = prefix

\* "numa" if not is_gpu else "gpu"
BandPrefix(is_gpu) == IF ~is_gpu THEN "numa" ELSE "gpu"

\* the key under which _update_bands groups a band by device type
DeviceTypeKey(b) == IF StartsWith(b, "numa") THEN "numa" ELSE "gpu"

\* the key under which _update_bands groups a band by address
AddressKey(b) == b.addr

----------------------------------------------------------------------------
(* Outcomes of a step that returns a band or raises *)

Ok(b) == [err |-> "none", arg |-> "", band |-> b]
Fail(e, x) == [err |-> e, arg |-> x, band |-> NoBand]
IsOk(o) == o.err = "none"

----------------------------------------------------------------------------
(* _update_bands *)

\* the elements of a list
Range(seq) == {seq[i] : i \in DOMAIN seq}

\* the order of Python on addresses and on band names ("gpu-0" < "numa-0"
\* < "numa-1"), as integers
AddressOrder(b) == IF b.addr = "A" THEN 1 ELSE IF b.addr = "B" THEN 2 ELSE 0
NameOrder(b) == (IF b.kind = "gpu" THEN 0 ELSE 10) + b.idx
\* the order of sorted() on bands (address, name)
BandOrder == [b \in AllBands |-> 100 * AddressOrder(b) + NameOrder(b)]
\* the order of sorted() on the pairs (device type, band)
DeviceTypeOrder ==
    [b \in AllBands |->
        (IF DeviceTypeKey(b) = "gpu" THEN 0 ELSE 1000) + BandOrder[b]]
\* an order that compares the names first
NameFirstOrder == [b \in AllBands |-> 10 * NameOrder(b) + AddressOrder(b)]

\* sorted(S) under the order ord
RECURSIVE Sorted(_, _)
Sorted(S, ord) ==
    IF S = {} THEN <<>>
    ELSE LET m == CHOOSE x \in S : \A y \in S : ord[x] <= ord[y]
         IN  <<m>> \o Sorted(S \ {m}, ord)

\* itertools.groupby(seq, key): the runs of consecutive elements of equal
\* key, as pairs [k, v]
RECURSIVE GroupBy(_, _)
GroupBy(seq, key) ==
    IF seq = <<>> THEN <<>>
    ELSE LET rest == GroupBy(Tail(seq), key)
         IN  IF rest # <<>> /\ rest[1].k = key[Head(seq)]
             THEN <<[k |-> rest[1].k, v |-> <<Head(seq)>> \o rest[1].v]>>
                      \o Tail(rest)
             ELSE <<[k |-> key[Head(seq)], v |-> <<Head(seq)>>]>> \o rest

\* {k: list(v) for k, v in pairs}: a later pair replaces an earlier one of
\* the same key
DictOf(pairs) ==
    [k \in {pairs[i].k : i \in DOMAIN pairs} |->
        pairs[CHOOSE i \in DOMAIN pairs :
                 /\ pairs[i].k = k
                 /\ \A j \in DOMAIN pairs : pairs[j].k = k => j <= i].v]

\* the bands grouped in the order of their names, not of their addresses
SortedBandsByName(bs) == Sorted(bs, NameFirstOrder)

\* sorted(self._bands) (line 72)
SortedBands(bs) == Sorted(bs, BandOrder)

\* the bands of the sorted pairs (device type, band) (line 76)
SortedByDeviceType(bs) == Sorted(bs, DeviceTypeOrder)

\* lines 72-81: the two indexes as they are built from each band list
Indexes ==
    {[bands |-> bs,
      address_to_bands |->
          DictOf(GroupBy(SortedBands(bs), [b \in AllBands |-> AddressKey(b)])),
      device_type_to_bands |->
          DictOf(GroupBy(SortedByDeviceType(bs),
                         [b \in AllBands |-> DeviceTypeKey(b)]))]
        : bs \in SUBSET AllBands}

\* _update_bands (lines 69-81); the band list is kept as the set of its
\* elements, the lists of the indexes as they are built
UpdateBands(bs) ==
    \E r \in Indexes :
        /\ r.bands = bs
        /\ bands' = bs
        /\ address_to_bands' = r.address_to_bands
        /\ device_type_to_bands' = r.device_type_to_bands

\* self._device_type_to_bands.get(band_prefix) or []
DeviceBands(is_gpu) ==
    IF BandPrefix(is_gpu) \in DOMAIN device_type_to_bands
    THEN Range(device_type_to_bands[BandPrefix(is_gpu)])
    ELSE {}

\* mutant of GetDeviceBandsError: the device class named in the error swapped
GetDeviceBandsErrorSwapped(is_gpu) ==
    IF DeviceBands(is_gpu) = {}
    THEN Fail("NoMatchingSlots", IF is_gpu THEN "cpu" ELSE "gpu")
    ELSE Ok(NoBand)

\* _get_device_bands: the bands of the class, or NoMatchingSlots
GetDeviceBandsError(is_gpu) ==
    IF DeviceBands(is_gpu) = {}
    THEN Fail("NoMatchingSlots", IF is_gpu THEN "gpu" ELSE "cpu")
    ELSE Ok(NoBand)

\* _get_random_band without the filter on exclude_bands
GetRandomBandIgnoringExclude(is_gpu, exclude_bands, random_when_unavailable) ==
    LET bs == DeviceBands(is_gpu)
    IN  IF ~IsOk(GetDeviceBandsError(is_gpu))
        THEN {GetDeviceBandsError(is_gpu)}
        ELSE {Ok(b) : b \in bs}

\* _get_random_band: every outcome np.random.choice allows
GetRandomBand(is_gpu, exclude_bands, random_when_unavailable) ==
    LET bs == DeviceBands(is_gpu)
        avail_bands == {band \in bs : band \notin exclude_bands}
    IN  IF ~IsOk(GetDeviceBandsError(is_gpu))
        THEN {GetDeviceBandsError(is_gpu)}
        ELSE IF exclude_bands # {} /\ avail_bands # {}
        THEN {Ok(b) : b \in avail_bands}
        ELSE IF exclude_bands # {} /\ ~random_when_unavailable
        THEN {Fail("NoAvailableBand", "")}
        ELSE {Ok(b) : b \in bs}

----------------------------------------------------------------------------
(* Subtasks.  A subtask is [expect_bands, bands_specified, op_gpu, nodes]:   *)
(* nodes are the source chunks of its chunk graph in iter_indep() order,   *)
(* each [op, gpu, size, bands, bc] with op one of Fetch, FetchShuffle and  *)
(* Other, size and bands the store_size and bands of its chunk meta, bc    *)
(* its is_broadcaster flag; op_gpu is the gpu flag of the operand the      *)
(* sources feed.  The key of source j of subtask i is <<i, j>>.            *)

\* any(c.op.gpu for c in subtask.chunk_graph)
IsGpu(subtask) ==
    subtask.op_gpu \/ \E j \in 1..Len(subtask.nodes) : subtask.nodes[j].gpu

\* whether the scan of the sources at lines 141-152 reaches a FetchShuffle
HasShuffle(subtask) ==
    \E j \in 1..Len(subtask.nodes) : subtask.nodes[j].op = "FetchShuffle"

\* whether source j is scanned before the scan breaks on a FetchShuffle
Scanned(subtask, j) ==
    \A k \in 1..(j - 1) : subtask.nodes[k].op # "FetchShuffle"

\* inp_keys after the first loop
InpKeys(subtasks) ==
    UNION { { <<i, j>> : j \in { k \in DOMAIN subtasks[i].nodes :
                                   /\ subtasks[i].expect_bands = {}
                                   /\ subtasks[i].nodes[k].op = "Fetch"
                                   /\ Scanned(subtasks[i], k) } }
            : i \in DOMAIN subtasks }

\* broadcaster_keys after the first loop
BroadcasterKeys(subtasks) ==
    { k \in InpKeys(subtasks) : subtasks[k[1]].nodes[k[2]].bc }

\* mutant of MetaStoreSize: the size of a broadcaster is not set to 0
MetaStoreSizeRaw(subtasks, i, j) == subtasks[i].nodes[j].size

\* inp_metas[key]["store_size"] after lines 160-164
MetaStoreSize(subtasks, i, j) ==
    IF <<i, j>> \in BroadcasterKeys(subtasks) THEN 0 ELSE subtasks[i].nodes[j].size

\* the selection the first loop makes for one subtask (lines 124-152):
\* [err, arg, has_sel, sel]
NoSelection == [err |-> "none", arg |-> "", has_sel |-> FALSE, sel |-> {}]
Selection(bs) == [err |-> "none", arg |-> "", has_sel |-> TRUE, sel |-> bs]
SelectionOf(o) ==
    IF IsOk(o) THEN Selection({o.band})
    ELSE [err |-> o.err, arg |-> o.arg, has_sel |-> FALSE, sel |-> {}]

\* mutant of ExcludeOrEmpty: the argument is dropped
ExcludeDropped(exclude_bands) == {}

\* exclude_bands = exclude_bands or set() (line 113)
ExcludeOrEmpty(exclude_bands) == IF exclude_bands # {} THEN exclude_bands ELSE {}

\* mutant of ExpectAvailableBands: expected bands are not checked against
\* exclude_bands
ExpectAvailableBandsIgnoringExclude(subtask, exclude_bands) ==
    { expect_band \in subtask.expect_bands : expect_band \in bands }

\* mutant of ExpectAvailableBands: expected bands are not checked against
\* the band list
ExpectAvailableBandsIgnoringReady(subtask, exclude_bands) ==
    { expect_band \in subtask.expect_bands : expect_band \notin exclude_bands }

\* expect_available_bands (lines 127-131)
ExpectAvailableBands(subtask, exclude_bands) ==
    { expect_band \in subtask.expect_bands :
        expect_band \in bands /\ expect_band \notin exclude_bands }

\* the first loop without the fill-in of lines 133-138
FirstLoopOutcomesNoFill(subtask, exclude_bands, random_when_unavailable) ==
    IF subtask.expect_bands # {}
    THEN {Selection(ExpectAvailableBands(subtask, exclude_bands))}
    ELSE IF HasShuffle(subtask)
    THEN { SelectionOf(o) :
             o \in GetRandomBand(IsGpu(subtask), exclude_bands,
                                 random_when_unavailable) }
    ELSE {NoSelection}

FirstLoopOutcomes(subtask, exclude_bands, random_when_unavailable) ==
    IF subtask.expect_bands # {}
    THEN IF ExpectAvailableBands(subtask, exclude_bands) # {}
         THEN {Selection(ExpectAvailableBands(subtask, exclude_bands))}
         ELSE { SelectionOf(o) :
                  o \in GetRandomBand(IsGpu(subtask), exclude_bands,
                                      random_when_unavailable) }
    ELSE IF HasShuffle(subtask)
    THEN { SelectionOf(o) :
             o \in GetRandomBand(IsGpu(subtask), exclude_bands,
                                 random_when_unavailable) }
    ELSE {NoSelection}

\* the first index at which a per-subtask outcome is an error, 0 if none
FirstError(f) ==
    IF \E i \in DOMAIN f : f[i].err # "none"
    THEN CHOOSE i \in DOMAIN f :
            f[i].err # "none" /\ \A k \in DOMAIN f : f[k].err # "none" => i <= k
    ELSE 0

\* the first loop over the batch: either the error it raises or selected_bands
FirstLoop(subtasks, exclude_bands, random_when_unavailable) ==
    LET n == Len(subtasks)
        Per(i) == FirstLoopOutcomes(subtasks[i], exclude_bands,
                                    random_when_unavailable)
        Choices == { f \in [1..n -> UNION {Per(i) : i \in 1..n}] :
                       \A i \in 1..n : f[i] \in Per(i) }
    IN  { IF FirstError(f) # 0
          THEN [err |-> f[FirstError(f)].err, arg |-> f[FirstError(f)].arg,
                idx |-> FirstError(f), selected |-> <<>>]
          ELSE [err |-> "none", arg |-> "", idx |-> 0,
                selected |-> [i \in {k \in 1..n : f[k].has_sel} |-> f[i].sel]]
          : f \in Choices }

----------------------------------------------------------------------------
(* The second loop of assign_subtasks (lines 165-216) *)

\* the (store_size, resident band) pairs the locality loop of lines 175-193
\* visits for subtask i, in order, from source j on
RECURSIVE Sites(_, _, _)
Sites(subtasks, i, j) ==
    IF j > Len(subtasks[i].nodes) THEN <<>>
    ELSE (IF subtasks[i].nodes[j].op = "Fetch"
          THEN [k \in 1..Len(subtasks[i].nodes[j].bands) |->
                   [size |-> MetaStoreSize(subtasks, i, j),
                    band |-> subtasks[i].nodes[j].bands[k]]]
          ELSE <<>>)
         \o Sites(subtasks, i, j + 1)

\* lines 180-188: a resident band of the wrong class is projected onto the
\* bands of the right class at its address (KeyError when the address index
\* has no such address)
ProjectBand(band, is_gpu, exclude_bands) ==
    IF StartsWith(band, BandPrefix(is_gpu)) THEN {Ok(band)}
    ELSE IF band.addr \notin DOMAIN address_to_bands THEN {Fail("KeyError", "")}
    ELSE LET sel_bands == { b \in Range(address_to_bands[band.addr]) :
                              StartsWith(b, BandPrefix(is_gpu))
                              /\ b \notin exclude_bands }
         IN  IF sel_bands # {} THEN {Ok(b) : b \in sel_bands} ELSE {Ok(band)}

\* mutant of SubstituteBand: an excluded band is kept
SubstituteBandKeepExcluded(band, is_gpu, exclude_bands, random_when_unavailable) ==
    IF band \notin DeviceBands(is_gpu)
    THEN GetRandomBand(is_gpu, exclude_bands, random_when_unavailable)
    ELSE {Ok(band)}

\* mutant of SubstituteBand: a band that is not a ready band of the class
\* is kept
SubstituteBandAnyClass(band, is_gpu, exclude_bands, random_when_unavailable) ==
    IF band \in exclude_bands
    THEN GetRandomBand(is_gpu, exclude_bands, random_when_unavailable)
    ELSE {Ok(band)}

\* lines 189-192: a band that is not a ready band of the class, or is
\* excluded, is replaced by a random band
SubstituteBand(band, is_gpu, exclude_bands, random_when_unavailable) ==
    IF band \notin DeviceBands(is_gpu) \/ band \in exclude_bands
    THEN GetRandomBand(is_gpu, exclude_bands, random_when_unavailable)
    ELSE {Ok(band)}

\* lines 179-192: the bands one resident band can be attributed to
AttributeBand(band, is_gpu, exclude_bands, random_when_unavailable) ==
    UNION { IF IsOk(p)
            THEN SubstituteBand(p.band, is_gpu, exclude_bands,
                                random_when_unavailable)
            ELSE {p}
            : p \in ProjectBand(band, is_gpu, exclude_bands) }

\* sum of S[k].size over the indices k in ks
RECURSIVE SumSizes(_, _)
SumSizes(S, ks) ==
    IF ks = {} THEN 0
    ELSE LET k == CHOOSE x \in ks : TRUE
         IN  S[k].size + SumSizes(S, ks \ {k})

\* band_sizes once every site k is attributed to f[k].band (line 193)
BandSizes(S, f) ==
    [b \in {f[k].band : k \in DOMAIN S} |->
        SumSizes(S, {k \in DOMAIN S : f[k].band = b})]

\* mutant of MaxSizeBands: every band of band_sizes is kept
AnySizeBands(band_sizes) == DOMAIN band_sizes

\* lines 194-201: the bands of maximal accumulated size
MaxSizeBands(band_sizes) ==
    { b \in DOMAIN band_sizes :
        \A c \in DOMAIN band_sizes : band_sizes[c] <= band_sizes[b] }

\* what the second loop has for one subtask before the final checks:
\* [err, arg, bands, sizes]
Candidates(bs, sizes) == [err |-> "none", arg |-> "", bands |-> bs, sizes |-> sizes]
CandidatesError(o) == [err |-> o.err, arg |-> o.arg, bands |-> {}, sizes |-> <<>>]

\* lines 174-201 for subtask i: every band_sizes the random attributions
\* allow, with its bands of maximal size, or the error of the first site
\* that raises
LocalityCandidates(subtasks, i, exclude_bands, random_when_unavailable) ==
    LET S == Sites(subtasks, i, 1)
        is_gpu == IsGpu(subtasks[i])
        Per(k) == AttributeBand(S[k].band, is_gpu, exclude_bands,
                                random_when_unavailable)
        Choices == { f \in [DOMAIN S -> UNION {Per(k) : k \in DOMAIN S}] :
                       \A k \in DOMAIN S : f[k] \in Per(k) }
    IN  { IF FirstError(f) # 0
          THEN CandidatesError(f[FirstError(f)])
          ELSE Candidates(MaxSizeBands(BandSizes(S, f)), BandSizes(S, f))
          : f \in Choices }

\* mutant of PickBand: the check of bands_specified is missing
PickBandUnchecked(subtask, cand, exclude_bands, random_when_unavailable) ==
    IF cand.err # "none"
    THEN {[err |-> cand.err, arg |-> cand.arg, band |-> NoBand, sizes |-> <<>>]}
    ELSE IF cand.bands = {}
    THEN {[err |-> "ValueError", arg |-> "", band |-> NoBand, sizes |-> cand.sizes]}
    ELSE { IF ~random_when_unavailable /\ band \in exclude_bands
           THEN [err |-> "NoAvailableBand", arg |-> "", band |-> NoBand,
                 sizes |-> cand.sizes]
           ELSE [err |-> "none", arg |-> "", band |-> band, sizes |-> cand.sizes]
           : band \in cand.bands }

\* lines 202-215: the random pick among the candidates and the two checks
PickBand(subtask, cand, exclude_bands, random_when_unavailable) ==
    IF cand.err # "none"
    THEN {[err |-> cand.err, arg |-> cand.arg, band |-> NoBand, sizes |-> <<>>]}
    ELSE IF cand.bands = {}
    THEN {[err |-> "ValueError", arg |-> "", band |-> NoBand, sizes |-> cand.sizes]}
    ELSE { IF (~random_when_unavailable /\ band \in exclude_bands)
              \/ (subtask.bands_specified /\ band \notin subtask.expect_bands)
           THEN [err |-> "NoAvailableBand", arg |-> "", band |-> NoBand,
                 sizes |-> cand.sizes]
           ELSE [err |-> "none", arg |-> "", band |-> band, sizes |-> cand.sizes]
           : band \in cand.bands }

\* one iteration of the second loop: [err, arg, band, sizes]
SecondLoopOutcomes(subtasks, i, selected, exclude_bands, random_when_unavailable) ==
    IF ~IsOk(GetDeviceBandsError(IsGpu(subtasks[i])))
    THEN {[err |-> GetDeviceBandsError(IsGpu(subtasks[i])).err,
           arg |-> GetDeviceBandsError(IsGpu(subtasks[i])).arg,
           band |-> NoBand, sizes |-> <<>>]}
    ELSE UNION { PickBand(subtasks[i], cand, exclude_bands, random_when_unavailable)
                 : cand \in IF i \in DOMAIN selected
                            THEN {Candidates(selected[i], <<>>)}
                            ELSE LocalityCandidates(subtasks, i, exclude_bands,
                                                    random_when_unavailable) }

\* the second loop over the batch: the error it raises, or assigns; sizes
\* keeps band_sizes of each subtask it got to
SecondLoop(subtasks, selected, exclude_bands, random_when_unavailable) ==
    LET n == Len(subtasks)
        Per(i) == SecondLoopOutcomes(subtasks, i, selected, exclude_bands,
                                     random_when_unavailable)
        Choices == { f \in [1..n -> UNION {Per(i) : i \in 1..n}] :
                       \A i \in 1..n : f[i] \in Per(i) }
    IN  { IF FirstError(f) # 0
          THEN [err |-> f[FirstError(f)].err, arg |-> f[FirstError(f)].arg,
                idx |-> FirstError(f),
                assigns |-> [i \in 1..(FirstError(f) - 1) |-> f[i].band],
                sizes |-> [i \in 1..FirstError(f) |-> f[i].sizes]]
          ELSE [err |-> "none", arg |-> "", idx |-> 0,
                assigns |-> [i \in 1..n |-> f[i].band],
                sizes |-> [i \in 1..n |-> f[i].sizes]]
          : f \in Choices }

----------------------------------------------------------------------------
(* reassign_subtasks (lines 218-293) *)

\* sum of the values of a map
RECURSIVE SumValues(_)
SumValues(m) ==
    IF DOMAIN m = {} THEN 0
    ELSE LET k == CHOOSE x \in DOMAIN m : TRUE
         IN  m[k] + SumValues([x \in DOMAIN m \ {k} |-> m[x]])

\* dict.get(k, 0)
GetOrZero(m, k) == IF k \in DOMAIN m THEN m[k] ELSE 0

\* dict.update
DictUpdate(m, u) ==
    [k \in DOMAIN m \cup DOMAIN u |-> IF k \in DOMAIN u THEN u[k] ELSE m[k]]

\* filtered_bands (lines 225-227)
FilteredBands(is_gpu) == {band \in bands : StartsWith(band, BandPrefix(is_gpu))}

\* filtered_band_to_queued_num (lines 228-232)
FilteredQueuedNum(band_to_queued_num, is_gpu) ==
    [k \in {b \in DOMAIN band_to_queued_num : StartsWith(b, BandPrefix(is_gpu))}
        |-> band_to_queued_num[k]]

\* the working set never restricted to the unready bands
WorkingQueuedNumWhole(fq, filtered_bands) == fq

\* lines 248-260: the working set, restricted to the unready bands when no
\* ready band is new
WorkingQueuedNum(fq, filtered_bands) ==
    LET unready_bands == DOMAIN fq \ filtered_bands
        new_ready_bands == filtered_bands \ DOMAIN fq
    IN  IF new_ready_bands = {} /\ unready_bands # {}
        THEN [k \in unready_bands |-> fq[k]]
        ELSE fq

\* the mean taken over all_bands instead of the ready bands
MeanOverAllBands(wq, filtered_bands) ==
    SumValues(wq) \div Cardinality(filtered_bands \cup DOMAIN wq)

\* the mean rounded up instead of down
MeanRoundedUp(wq, filtered_bands) ==
    (SumValues(wq) + Cardinality(filtered_bands) - 1)
        \div Cardinality(filtered_bands)

\* mean = int(num_all_subtasks / len(filtered_bands)), counts non-negative
Mean(wq, filtered_bands) == SumValues(wq) \div Cardinality(filtered_bands)

\* band_move_nums with the two branches of line 278 exchanged
BandMoveNumsSwapped(wq, filtered_bands) ==
    [band \in filtered_bands \cup DOMAIN wq |->
        IF band \notin filtered_bands
        THEN Mean(wq, filtered_bands) - GetOrZero(wq, band)
        ELSE 0 - GetOrZero(wq, band)]

\* band_move_nums before the residual credit (lines 269-283)
BandMoveNums(wq, filtered_bands) ==
    [band \in filtered_bands \cup DOMAIN wq |->
        IF band \in filtered_bands
        THEN Mean(wq, filtered_bands) - GetOrZero(wq, band)
        ELSE 0 - GetOrZero(wq, band)]

\* the residual credit with the sign of line 291 turned
CreditResidualWrongSign(band_move_nums) ==
    LET total_move == SumValues(band_move_nums)
    IN  IF ~(total_move <= 0) THEN {[err |-> "AssertionError", moves |-> <<>>]}
        ELSE IF total_move = 0 THEN {[err |-> "none", moves |-> band_move_nums]}
        ELSE { IF ~IsOk(o) THEN [err |-> o.err, moves |-> <<>>]
               ELSE IF o.band \notin DOMAIN band_move_nums
               THEN [err |-> "KeyError", moves |-> <<>>]
               ELSE [err |-> "none",
                     moves |-> [band_move_nums EXCEPT ![o.band] = @ + total_move]]
               : o \in GetRandomBand(FALSE, {}, TRUE) }

\* lines 285-291: the assertion and the residual credit to a random CPU band
CreditResidual(band_move_nums) ==
    LET total_move == SumValues(band_move_nums)
    IN  IF ~(total_move <= 0) THEN {[err |-> "AssertionError", moves |-> <<>>]}
        ELSE IF total_move = 0 THEN {[err |-> "none", moves |-> band_move_nums]}
        ELSE { IF ~IsOk(o) THEN [err |-> o.err, moves |-> <<>>]
               ELSE IF o.band \notin DOMAIN band_move_nums
               THEN [err |-> "KeyError", moves |-> <<>>]
               ELSE [err |-> "none",
                     moves |-> [band_move_nums EXCEPT ![o.band] = @ - total_move]]
               : o \in GetRandomBand(FALSE, {}, TRUE) }

\* line 244 without its test band == filtered_bands[0]
ReassignClassSingleReady(band_to_queued_num, is_gpu) ==
    LET filtered_bands == FilteredBands(is_gpu)
        fq == FilteredQueuedNum(band_to_queued_num, is_gpu)
        only == CHOOSE b \in DOMAIN fq : TRUE
        Zero == {[err |-> "none", moves |-> [b \in {only} |-> 0]]}
    IN  IF filtered_bands = {} THEN {[err |-> "none", moves |-> <<>>]}
        ELSE IF Cardinality(DOMAIN fq) = 1 /\ fq[only] = 0 THEN Zero
        ELSE IF Cardinality(DOMAIN fq) = 1 /\ Cardinality(filtered_bands) = 1
        THEN Zero
        ELSE CreditResidual(
                 BandMoveNums(WorkingQueuedNum(fq, filtered_bands), filtered_bands))

\* one iteration of the loop over the device classes: the entries it adds to
\* move_queued_subtasks, or the error it raises
ReassignClass(band_to_queued_num, is_gpu) ==
    LET filtered_bands == FilteredBands(is_gpu)
        fq == FilteredQueuedNum(band_to_queued_num, is_gpu)
        only == CHOOSE b \in DOMAIN fq : TRUE
        Zero == {[err |-> "none", moves |-> [b \in {only} |-> 0]]}
    IN  IF filtered_bands = {} THEN {[err |-> "none", moves |-> <<>>]}
        ELSE IF Cardinality(DOMAIN fq) = 1 /\ fq[only] = 0 THEN Zero
        ELSE IF Cardinality(DOMAIN fq) = 1 /\ filtered_bands = {only} THEN Zero
        ELSE CreditResidual(
                 BandMoveNums(WorkingQueuedNum(fq, filtered_bands), filtered_bands))

\* the whole call: CPU bands first, then GPU bands; [err, moves]
ReassignSubtasks(band_to_queued_num) ==
    UNION { IF c.err # "none" THEN {c}
            ELSE { IF g.err # "none" THEN g
                   ELSE [err |-> "none", moves |-> DictUpdate(c.moves, g.moves)]
                   : g \in ReassignClass(band_to_queued_num, TRUE) }
            : c \in ReassignClass(band_to_queued_num, FALSE) }

\* the orders in which a set can be listed
Perms(S) ==
    {f \in [1..Cardinality(S) -> S] : \A i, j \in DOMAIN f : i # j => f[i] # f[j]}

\* the orders in which move_queued_subtasks can hold the keys of moves before
\* line 293: the bands of the CPU pass, then those of the GPU pass, each
\* pass in the order of a set (lines 241, 245, 269-271 and 292)
InsertionOrders(moves) ==
    {c \o g : c \in Perms({b \in DOMAIN moves : StartsWith(b, "numa")}),
              g \in Perms({b \in DOMAIN moves : StartsWith(b, "gpu")})}

\* x put into the sorted list seq behind the elements whose key is not larger
RECURSIVE InsertByKey(_, _, _)
InsertByKey(seq, x, key) ==
    IF seq = <<>> THEN <<x>>
    ELSE IF key[x] < key[Head(seq)] THEN <<x>> \o seq
    ELSE <<Head(seq)>> \o InsertByKey(Tail(seq), x, key)

\* sorted(seq, key=...): elements of equal key keep their order
RECURSIVE SortedByKey(_, _)
SortedByKey(seq, key) ==
    IF seq = <<>> THEN <<>>
    ELSE InsertByKey(SortedByKey(SubSeq(seq, 1, Len(seq) - 1), key),
                     seq[Len(seq)], key)

\* the bands of class prefix in seq, in the order of seq
OfClass(seq, prefix) == SelectSeq(seq, LAMBDA b : StartsWith(b, prefix))

ReturnedOrdersPerClass(moves) ==
    {SortedByKey(OfClass(ins, "numa"), moves)
        \o SortedByKey(OfClass(ins, "gpu"), moves) : ins \in InsertionOrders(moves)}

\* line 293: the orders in which the returned dict can list its bands
ReturnedOrders(moves) ==
    {SortedByKey(ins, moves) : ins \in InsertionOrders(moves)}

----------------------------------------------------------------------------
(* Inputs *)

FetchNode(size, b, bc) ==
    [op |-> "Fetch", gpu |-> FALSE, size |-> size, bands |-> <<b>>, bc |-> bc]
ShuffleNode ==
    [op |-> "FetchShuffle", gpu |-> FALSE, size |-> 0, bands |-> <<>>, bc |-> FALSE]
OtherNode ==
    [op |-> "Other", gpu |-> FALSE, size |-> 0, bands |-> <<>>, bc |-> FALSE]

Subtask(expect, specified, gpu, nodes) ==
    [expect_bands |-> expect, bands_specified |-> specified, op_gpu |-> gpu,
     nodes |-> nodes]

\* exclude_bands arguments: every set of at most two bands
ExcludeSets == {e \in SUBSET AllBands : Cardinality(e) <= 2}

\* Fetch sources: any size, any resident band, broadcaster or not
FetchNodes ==
    {FetchNode(sz, b, bc) : sz \in 1..MaxStoreSize, b \in AllBands, bc \in BOOLEAN}

\* resident bands of the sources of subtasks with two or three sources
PairBands == {Band("A", "numa", 0), Band("B", "numa", 0), Band("A", "gpu", 0)}

\* source lists of subtasks on the locality path: none, one Fetch of any
\* kind, an Other source, two Fetch sources (the first broadcaster or not),
\* three plain Fetch sources of size 1
LocalityNodes ==
    {<<>>, <<OtherNode>>} \cup {<<n>> : n \in FetchNodes}
           \cup {<<OtherNode, n>> : n \in {FetchNode(1, b, FALSE) : b \in PairBands}}
PairNodes ==
    {<<FetchNode(s1, b1, bc), FetchNode(s2, b2, FALSE)>> :
        s1 \in 1..MaxStoreSize, s2 \in 1..MaxStoreSize,
        b1 \in PairBands, b2 \in PairBands, bc \in BOOLEAN}
TripleNodes ==
    {<<FetchNode(1, b1, FALSE), FetchNode(1, b2, FALSE), FetchNode(1, b3, FALSE)>> :
        b1 \in {Band("A", "numa", 0)},
        b2 \in {Band("A", "numa", 0), Band("B", "numa", 0)},
        b3 \in {Band("B", "numa", 0), Band("A", "gpu", 0)}}

\* source lists with a FetchShuffle
ShuffleNodes ==
    {<<ShuffleNode>>}
        \cup {<<n, ShuffleNode>> : n \in {FetchNode(1, b, FALSE) : b \in PairBands}}

\* expect_bands of subtasks that have them: one or two bands of any class
ExpectSets == {e \in SUBSET AllBands : Cardinality(e) \in {1, 2}}

AssignSubtasks ==
    {Subtask(e, sp, g, <<n>>) :
        e \in ExpectSets, sp \in BOOLEAN, g \in BOOLEAN,
        n \in {FetchNode(1, Band("A", "numa", 0), FALSE), ShuffleNode}}
    \cup {Subtask({}, sp, g, ns) :
            sp \in BOOLEAN, g \in BOOLEAN, ns \in ShuffleNodes \cup LocalityNodes}
    \cup {Subtask({}, FALSE, g, ns) :
            g \in BOOLEAN, ns \in PairNodes \cup TripleNodes}

\* batches passed to assign_subtasks
AssignBatches == {<<s>> : s \in AssignSubtasks}

\* band_to_queued_num arguments
QueuedNums == UNION {[S -> 0..MaxQueued] : S \in SUBSET AllBands}

----------------------------------------------------------------------------
(* State machine *)

NoResult ==
    [err |-> "pending", arg |-> "", idx |-> 0, assigns |-> <<>>, sizes |-> <<>>]
NoMoves == [err |-> "pending", moves |-> <<>>]
\* a band list with the version counter of the watcher
Snapshot(bs, v) == [bands |-> bs, version |-> v]
NoSnapshot == Snapshot({}, -1)

\* the batch of the scheduler and the bands of its cluster
Subtasks == 1..NumSubtasks
SchedBands == {Band("A", "numa", 0), Band("B", "numa", 0)}
\* slots of a band
Capacity(b) == IF b.addr = "A" THEN 1 ELSE 2
\* subtask_max_reschedules when the configuration omits it
DEFAULT_SUBTASK_MAX_RESCHEDULES == 3
subtask_max_reschedules == DEFAULT_SUBTASK_MAX_RESCHEDULES
\* Subtask.retryable: the last subtask of the batch is not retryable
Retryable(s) == s # NumSubtasks

Init ==
    /\ bands = {}
    /\ address_to_bands = <<>>
    /\ device_type_to_bands = <<>>
    /\ a_pc = "idle"
    /\ a_subtasks = <<>>
    /\ a_exclude = {}
    /\ a_rwu = TRUE
    /\ selected_bands = <<>>
    /\ a_result = NoResult
    /\ r_in = <<>>
    /\ r_result = NoMoves
    /\ cluster = Snapshot({}, 0)
    /\ reachable = TRUE
    /\ watch_reply = NoSnapshot
    /\ watch_last = NoSnapshot
    /\ lazy_reply = NoSnapshot
    /\ bands_version = 0
    /\ sub_state = [s \in Subtasks |-> "NONE"]
    /\ owner = [s \in Subtasks |-> {}]
    /\ resched = [s \in Subtasks |-> 0]
    /\ sub_exclude = [s \in Subtasks |-> {}]
    /\ queue = [b \in SchedBands |-> <<>>]
    /\ free_slots = [b \in SchedBands |-> Capacity(b)]
    /\ ready = SchedBands
    /\ actors = {}
    /\ registered = FALSE
    /\ s_pc = "idle"
    /\ s_tasks = {}
    /\ s_result = "none"
    /\ s_before = {}

\* a result is held until its caller has taken it
Returning == a_pc = "done" \/ r_result.err # "pending"

\* watch_bands (lines 59-61): the watch emits a band list and it is applied
WatchBands ==
    /\ ~Returning
    /\ \E bs \in SUBSET AllBands : bs # bands /\ UpdateBands(bs)
    /\ UNCHANGED <<assign_vars, reassign_vars, rest_vars>>

\* lines 123-152 and the suspension in get_chunk_meta, or the error raised
RunFirstLoop(r) ==
    IF r.err # "none"
    THEN /\ a_pc' = "done"
         /\ a_result' = [err |-> r.err, arg |-> r.arg, idx |-> r.idx,
                         assigns |-> <<>>, sizes |-> <<>>]
         /\ selected_bands' = <<>>
    ELSE /\ a_pc' = "get_chunk_meta"
         /\ a_result' = NoResult
         /\ selected_bands' = r.selected

AssignCallRefreshing(batches, excludes) ==
    /\ a_pc = "idle"
    /\ ~Returning
    /\ \E sts \in batches, ex \in excludes, rwu \in BOOLEAN :
          /\ a_subtasks' = sts
          /\ a_exclude' = ex
          /\ a_rwu' = rwu
          /\ a_pc' = "get_all_bands"
          /\ UNCHANGED <<selected_bands, a_result>>
    /\ UNCHANGED <<assigner_vars, reassign_vars, rest_vars>>

\* assign_subtasks is called (lines 113-121): with an empty band list it
\* suspends in get_all_bands, otherwise it runs the first loop
AssignCall(batches, excludes) ==
    /\ a_pc = "idle"
    /\ ~Returning
    /\ \E sts \in batches, ex \in excludes, rwu \in BOOLEAN :
          /\ a_subtasks' = sts
          /\ a_exclude' = ex
          /\ a_rwu' = rwu
          /\ IF bands = {}
             THEN /\ a_pc' = "get_all_bands"
                  /\ UNCHANGED <<selected_bands, a_result>>
             ELSE \E r \in FirstLoop(sts, ExcludeOrEmpty(ex), rwu) : RunFirstLoop(r)
    /\ UNCHANGED <<assigner_vars, reassign_vars, rest_vars>>

AssignStart(batches) == AssignCall(batches, ExcludeSets)

\* lines 119-121 and the first loop: the band list bs that get_all_bands
\* answered is applied and the first loop runs on it
GotBands(bs) ==
    /\ a_pc = "get_all_bands"
    /\ ~Returning
    /\ UNCHANGED <<a_subtasks, a_exclude, a_rwu, reassign_vars>>
    /\ UpdateBands(bs)
    /\ \E r \in FirstLoop(a_subtasks, ExcludeOrEmpty(a_exclude), a_rwu)' :
          RunFirstLoop(r)

\* get_all_bands answers any band list
AssignGotBands ==
    /\ \E bs \in SUBSET AllBands : GotBands(bs)
    /\ UNCHANGED rest_vars

\* get_chunk_meta answers (lines 156-160); the second loop runs
AssignGotMetas ==
    /\ a_pc = "get_chunk_meta"
    /\ ~Returning
    /\ \E r \in SecondLoop(a_subtasks, selected_bands,
                          ExcludeOrEmpty(a_exclude), a_rwu) :
          a_result' = r
    /\ a_pc' = "done"
    /\ UNCHANGED <<a_subtasks, a_exclude, a_rwu, selected_bands,
                   assigner_vars, reassign_vars, rest_vars>>

\* the caller takes the result of assign_subtasks
AssignReturn ==
    /\ a_pc = "done"
    /\ a_pc' = "idle"
    /\ a_subtasks' = <<>>
    /\ a_exclude' = {}
    /\ a_rwu' = TRUE
    /\ selected_bands' = <<>>
    /\ a_result' = NoResult
    /\ UNCHANGED <<assigner_vars, reassign_vars, rest_vars>>

\* reassign_subtasks runs without suspending
Reassign(queued_nums) ==
    /\ ~Returning
    /\ \E q \in queued_nums :
          /\ r_in' = q
          /\ \E r \in ReassignSubtasks(q) : r_result' = r
    /\ UNCHANGED <<assigner_vars, assign_vars, rest_vars>>

\* the caller takes the result of reassign_subtasks
ReassignReturn ==
    /\ r_result.err # "pending"
    /\ r_in' = <<>>
    /\ r_result' = NoMoves
    /\ UNCHANGED <<assigner_vars, assign_vars, rest_vars>>

\* every interleaving of the watch task with the two calls, on few inputs
SmallBatches ==
    {<<Subtask(e, FALSE, FALSE, <<n>>)>> :
        e \in {{}, {Band("A", "numa", 0)}},
        n \in {FetchNode(1, Band("B", "numa", 0), FALSE), ShuffleNode}}
SmallQueuedNums ==
    {[b \in S |-> 1] : S \in {{Band("A", "numa", 0)}, {Band("A", "gpu", 0)}}}

Next ==
    \/ WatchBands
    \/ AssignStart(SmallBatches)
    \/ AssignGotBands
    \/ AssignGotMetas
    \/ AssignReturn
    \/ Reassign(SmallQueuedNums)
    \/ ReassignReturn

Spec == Init /\ [][Next]_vars

\* assign_subtasks, the band list changing only between calls
NextAssign ==
    \/ (a_pc = "idle" /\ WatchBands)
    \/ AssignStart(AssignBatches)
    \/ AssignGotBands
    \/ AssignGotMetas
    \/ AssignReturn

SpecAssign == Init /\ [][NextAssign]_vars

\* reassign_subtasks
NextReassign ==
    \/ WatchBands
    \/ Reassign(QueuedNums)
    \/ ReassignReturn

SpecReassign == Init /\ [][NextReassign]_vars

\* reassign_subtasks on inputs over one CPU band and two GPU bands
ClassInputs ==
    UNION {[S -> 0..MaxQueued] :
             S \in SUBSET {Band("A", "numa", 0), Band("A", "gpu", 0),
                           Band("B", "gpu", 0)}}

NextClasses ==
    \/ WatchBands
    \/ Reassign(ClassInputs)
    \/ ReassignReturn

SpecClasses == Init /\ [][NextClasses]_vars

\* assign_subtasks on batches of two subtasks
BatchSubtasks ==
    {Subtask({}, FALSE, g, <<FetchNode(1, Band("A", "numa", 0), FALSE)>>) :
        g \in BOOLEAN}
    \cup {Subtask({Band("B", "numa", 0)}, TRUE, FALSE, <<>>),
          Subtask({}, FALSE, FALSE, <<ShuffleNode>>),
          Subtask({}, FALSE, FALSE, <<>>)}
PairBatches == {<<s, t>> : s \in BatchSubtasks, t \in BatchSubtasks}

NextBatch ==
    \/ (a_pc = "idle" /\ WatchBands)
    \/ AssignCall(PairBatches, {{}, {Band("A", "numa", 0)}})
    \/ AssignGotBands
    \/ AssignGotMetas
    \/ AssignReturn

SpecBatch == Init /\ [][NextBatch]_vars

----------------------------------------------------------------------------
(* The band watch and the lazy load against a cluster whose band list has  *)
(* a version.  Both answers travel to the Assigner and are consumed when   *)
(* the task that awaits them is resumed.                                   *)

\* band lists of the cluster
ClusterBandSets == SUBSET {Band("A", "numa", 0), Band("B", "numa", 0)}

\* the band list of the cluster changes and its version grows
ClusterChange ==
    /\ cluster.version < MaxVersion
    /\ \E bs \in ClusterBandSets :
          /\ bs # cluster.bands
          /\ cluster' = Snapshot(bs, cluster.version + 1)
    /\ UNCHANGED <<assigner_vars, assign_vars, reassign_vars, sched_vars,
                   session_vars, reachable,
                   watch_reply, watch_last, lazy_reply,
                   bands_version>>

\* the cluster API becomes unreachable, or reachable again
ClusterFlip ==
    /\ reachable' = ~reachable
    /\ UNCHANGED <<assigner_vars, assign_vars, reassign_vars, sched_vars,
                   session_vars, cluster,
                   watch_reply, watch_last, lazy_reply,
                   bands_version>>

\* watch_all_bands answers the version the watch passed with the current
\* band list once it differs
WatchEmit ==
    /\ reachable
    /\ watch_reply = NoSnapshot
    /\ cluster.version # watch_last.version
    /\ watch_reply' = cluster
    /\ UNCHANGED <<assigner_vars, assign_vars, reassign_vars, sched_vars,
                   session_vars, cluster,
                   reachable, watch_last, lazy_reply,
                   bands_version>>

\* the cluster API is unreachable: after a backoff the watch yields the
\* snapshot it yielded last
WatchBackoff ==
    /\ ~reachable
    /\ watch_reply = NoSnapshot
    /\ watch_last # NoSnapshot
    /\ watch_reply' = watch_last
    /\ UNCHANGED <<assigner_vars, assign_vars, reassign_vars, sched_vars,
                   session_vars, cluster,
                   reachable, watch_last, lazy_reply,
                   bands_version>>

\* watch_bands (lines 59-61): the body of the loop applies the emission
WatchApply ==
    /\ watch_reply # NoSnapshot
    /\ UpdateBands(watch_reply.bands)
    /\ bands_version' = watch_reply.version
    /\ watch_last' = watch_reply
    /\ watch_reply' = NoSnapshot
    /\ UNCHANGED <<assign_vars, reassign_vars, sched_vars, session_vars,
                   cluster, reachable,
                   lazy_reply>>

\* get_all_bands (cluster API lines 192-200) answers with the current band
\* list of the cluster
GetAllBandsAnswer ==
    /\ a_pc = "get_all_bands"
    /\ reachable
    /\ lazy_reply = NoSnapshot
    /\ lazy_reply' = cluster
    /\ UNCHANGED <<assigner_vars, assign_vars, reassign_vars, sched_vars,
                   session_vars, cluster,
                   reachable, watch_reply, watch_last, bands_version>>

\* assign_subtasks resumes with the answer of get_all_bands (lines 119-121)
AssignGotAnswer ==
    /\ lazy_reply # NoSnapshot
    /\ GotBands(lazy_reply.bands)
    /\ bands_version' = lazy_reply.version
    /\ lazy_reply' = NoSnapshot
    /\ UNCHANGED <<sched_vars, session_vars, cluster, reachable, watch_reply,
                   watch_last>>

\* calls of assign_subtasks made while the band list is watched
WatchedBatches ==
    {<<Subtask({}, FALSE, FALSE, <<n>>)>> :
        n \in {FetchNode(1, Band("B", "numa", 0), FALSE), ShuffleNode}}

NextWatch ==
    \/ ClusterChange
    \/ ClusterFlip
    \/ WatchEmit
    \/ WatchBackoff
    \/ WatchApply
    \/ AssignCall(WatchedBatches, {{}})
    \/ GetAllBandsAnswer
    \/ AssignGotAnswer
    \/ AssignGotMetas
    \/ AssignReturn

SpecWatch == Init /\ [][NextWatch]_vars

\* the watch task and the coroutine of assign_subtasks are resumed once
\* their answers have arrived
SpecWatchFair ==
    SpecWatch /\ WF_vars(WatchApply) /\ WF_vars(AssignGotAnswer)

----------------------------------------------------------------------------
(* The scheduler: SubtaskManager, BandQueue and GlobalResourceManager.     *)
(* One session, subtasks of equal priority.                                *)

Terminal == {"SUCCEEDED", "FAILED", "CANCELLED"}
\* the states in which a subtask holds a slot reservation on its band
HoldsSlot(s) == sub_state[s] \in {"SUBMITTED", "RUNNING"}
\* the band that owns a subtask
OwnerOf(s) == CHOOSE b \in owner[s] : TRUE

\* a release that gives nothing back
ReleaseNothing(fs, b) == fs

\* GlobalResourceManager.release(band, 1): capped at the band's capacity
Release(fs, b) ==
    [fs EXCEPT ![b] = IF @ + 1 > Capacity(b) THEN Capacity(b) ELSE @ + 1]
\* release of the slots of the subtasks in S, each on its owning band
RECURSIVE ReleaseAll(_, _)
ReleaseAll(fs, S) ==
    IF S = {} THEN fs
    ELSE LET s == CHOOSE x \in S : TRUE
         IN  ReleaseAll(Release(fs, OwnerOf(s)), S \ {s})
\* BandQueue.remove(subtask_id)
RECURSIVE Remove(_, _)
Remove(q, s) ==
    IF q = <<>> THEN <<>>
    ELSE IF Head(q) = s THEN Remove(Tail(q), s)
    ELSE <<Head(q)>> \o Remove(Tail(q), s)
\* whether a subtask that failed may be rescheduled
HasBudget(s) == Retryable(s) /\ resched[s] < subtask_max_reschedules

\* submit(subtasks): a subtask of the batch enters the manager
Submit(s) ==
    /\ sub_state[s] = "NONE"
    /\ sub_state' = [sub_state EXCEPT ![s] = "PENDING"]
    /\ UNCHANGED <<owner, resched, sub_exclude, queue, free_slots, ready,
                   assigner_side>>

\* PENDING -> ASSIGNED: the Assigner gives a READY band outside the
\* subtask's exclude_bands; with none the subtask is FAILED
Assigned(s) ==
    /\ sub_state[s] = "PENDING"
    /\ IF ready \ sub_exclude[s] = {}
       THEN /\ sub_state' = [sub_state EXCEPT ![s] = "FAILED"]
            /\ UNCHANGED owner
       ELSE \E b \in ready \ sub_exclude[s] :
               /\ sub_state' = [sub_state EXCEPT ![s] = "ASSIGNED"]
               /\ owner' = [owner EXCEPT ![s] = {b}]
    /\ UNCHANGED <<resched, sub_exclude, queue, free_slots, ready,
                   assigner_side>>

\* ASSIGNED -> QUEUED: push on the BandQueue of the owning band
Enqueued(s) ==
    /\ sub_state[s] = "ASSIGNED"
    /\ sub_state' = [sub_state EXCEPT ![s] = "QUEUED"]
    /\ queue' = [queue EXCEPT ![OwnerOf(s)] = Append(@, s)]
    /\ UNCHANGED <<owner, resched, sub_exclude, free_slots, ready,
                   assigner_side>>

\* the push of a rebalance that leaves the entry in the queue it came from
MoveKeepingEntry(q, s, a, b) == [q EXCEPT ![b] = Append(@, s)]

\* rebalance: the entry leaves the queue of band a and is pushed on band b
Move(q, s, a, b) == [q EXCEPT ![a] = Remove(@, s), ![b] = Append(@, s)]

\* QUEUED -> SUBMITTED: pop_if_acquirable, acquire(band, 1) succeeds
SlotAcquired(b) ==
    /\ queue[b] # <<>>
    /\ free_slots[b] >= 1
    /\ free_slots' = [free_slots EXCEPT ![b] = @ - 1]
    /\ queue' = [queue EXCEPT ![b] = Tail(@)]
    /\ sub_state' = [sub_state EXCEPT ![Head(queue[b])] = "SUBMITTED"]
    /\ UNCHANGED <<owner, resched, sub_exclude, ready, assigner_side>>

\* a failure that keeps the slot of the subtask reserved
FailedKeepingSlot(s) ==
    /\ IF HasBudget(s)
       THEN /\ sub_state' = [sub_state EXCEPT ![s] = "PENDING"]
            /\ resched' = [resched EXCEPT ![s] = @ + 1]
       ELSE /\ sub_state' = [sub_state EXCEPT ![s] = "FAILED"]
            /\ UNCHANGED resched
    /\ sub_exclude' = [sub_exclude EXCEPT ![s] = @ \cup owner[s]]
    /\ owner' = [owner EXCEPT ![s] = {}]
    /\ UNCHANGED free_slots

\* a failure that counts a reschedule whatever the budget
FailedUnbounded(s) ==
    /\ sub_state' = [sub_state EXCEPT ![s] = "PENDING"]
    /\ resched' = [resched EXCEPT ![s] = @ + 1]
    /\ free_slots' = Release(free_slots, OwnerOf(s))
    /\ sub_exclude' = [sub_exclude EXCEPT ![s] = @ \cup owner[s]]
    /\ owner' = [owner EXCEPT ![s] = {}]

\* a RUNNING subtask failed with a transient error: back to PENDING with one
\* more reschedule and the failed band excluded if budget remains, FAILED
\* otherwise; the slot is released
Failed(s) ==
    /\ IF HasBudget(s)
       THEN /\ sub_state' = [sub_state EXCEPT ![s] = "PENDING"]
            /\ resched' = [resched EXCEPT ![s] = @ + 1]
       ELSE /\ sub_state' = [sub_state EXCEPT ![s] = "FAILED"]
            /\ UNCHANGED resched
    /\ free_slots' = Release(free_slots, OwnerOf(s))
    /\ sub_exclude' = [sub_exclude EXCEPT ![s] = @ \cup owner[s]]
    /\ owner' = [owner EXCEPT ![s] = {}]

Reports == {"started", "succeeded", "failed_transient", "failed_permanent"}

\* a worker report whose success is applied to a cancelled subtask too
OnWorkerReportLateSuccess(s, status) ==
    /\ IF status = "started" /\ sub_state[s] = "SUBMITTED"
       THEN /\ sub_state' = [sub_state EXCEPT ![s] = "RUNNING"]
            /\ UNCHANGED <<owner, resched, sub_exclude, free_slots>>
       ELSE IF status = "succeeded" /\ sub_state[s] = "RUNNING"
       THEN /\ sub_state' = [sub_state EXCEPT ![s] = "SUCCEEDED"]
            /\ free_slots' = Release(free_slots, OwnerOf(s))
            /\ owner' = [owner EXCEPT ![s] = {}]
            /\ UNCHANGED <<resched, sub_exclude>>
       ELSE IF status = "succeeded" /\ sub_state[s] = "CANCELLED"
       THEN /\ sub_state' = [sub_state EXCEPT ![s] = "SUCCEEDED"]
            /\ UNCHANGED <<owner, resched, sub_exclude, free_slots>>
       ELSE IF status = "failed_transient" /\ sub_state[s] = "RUNNING"
       THEN Failed(s)
       ELSE IF status = "failed_permanent" /\ sub_state[s] = "RUNNING"
       THEN /\ sub_state' = [sub_state EXCEPT ![s] = "FAILED"]
            /\ free_slots' = Release(free_slots, OwnerOf(s))
            /\ owner' = [owner EXCEPT ![s] = {}]
            /\ UNCHANGED <<resched, sub_exclude>>
       ELSE UNCHANGED <<sub_state, owner, resched, sub_exclude, free_slots>>
    /\ UNCHANGED <<queue, ready, assigner_side>>

\* on_worker_report: a report that is a valid transition from the current
\* state is applied, any other is dropped
OnWorkerReport(s, status) ==
    /\ IF status = "started" /\ sub_state[s] = "SUBMITTED"
       THEN /\ sub_state' = [sub_state EXCEPT ![s] = "RUNNING"]
            /\ UNCHANGED <<owner, resched, sub_exclude, free_slots>>
       ELSE IF status = "succeeded" /\ sub_state[s] = "RUNNING"
       THEN /\ sub_state' = [sub_state EXCEPT ![s] = "SUCCEEDED"]
            /\ free_slots' = Release(free_slots, OwnerOf(s))
            /\ owner' = [owner EXCEPT ![s] = {}]
            /\ UNCHANGED <<resched, sub_exclude>>
       ELSE IF status = "failed_transient" /\ sub_state[s] = "RUNNING"
       THEN Failed(s)
       ELSE IF status = "failed_permanent" /\ sub_state[s] = "RUNNING"
       THEN /\ sub_state' = [sub_state EXCEPT ![s] = "FAILED"]
            /\ free_slots' = Release(free_slots, OwnerOf(s))
            /\ owner' = [owner EXCEPT ![s] = {}]
            /\ UNCHANGED <<resched, sub_exclude>>
       ELSE UNCHANGED <<sub_state, owner, resched, sub_exclude, free_slots>>
    /\ UNCHANGED <<queue, ready, assigner_side>>

\* the part of the scheduler's state that cancel works on
Sched ==
    [sub_state |-> sub_state, owner |-> owner, queue |-> queue,
     free_slots |-> free_slots]

\* a cancel that gives the slot of a SUBMITTED or RUNNING subtask back and
\* leaves the subtask in its state
CancelOfKeepingState(st, s) ==
    IF st.sub_state[s] \in Terminal \cup {"NONE"} THEN st
    ELSE IF st.sub_state[s] \in {"SUBMITTED", "RUNNING"}
    THEN [st EXCEPT !.free_slots =
                        Release(@, CHOOSE b \in st.owner[s] : TRUE)]
    ELSE [st EXCEPT !.sub_state[s] = "CANCELLED",
                    !.owner[s] = {},
                    !.queue = [b \in SchedBands |-> Remove(@[b], s)]]

\* cancel of one subtask id as a function of the scheduler's state: a
\* subtask that is not terminal becomes CANCELLED, is removed from its queue
\* and gives its slot back; a terminal or unknown subtask is left alone
CancelOf(st, s) ==
    IF st.sub_state[s] \in Terminal \cup {"NONE"} THEN st
    ELSE [st EXCEPT !.sub_state[s] = "CANCELLED",
                    !.owner[s] = {},
                    !.queue = [b \in SchedBands |-> Remove(@[b], s)],
                    !.free_slots =
                        IF st.sub_state[s] \in {"SUBMITTED", "RUNNING"}
                        THEN Release(@, CHOOSE b \in st.owner[s] : TRUE)
                        ELSE @]

\* cancel(subtask_ids), one id at a time
Cancel(s) ==
    /\ sub_state' = CancelOf(Sched, s).sub_state
    /\ owner' = CancelOf(Sched, s).owner
    /\ queue' = CancelOf(Sched, s).queue
    /\ free_slots' = CancelOf(Sched, s).free_slots
    /\ UNCHANGED <<resched, sub_exclude, ready, assigner_side>>

\* a band loss that does not add the lost band to exclude_bands
BandLostNoExclude(b) ==
    LET owned == {s \in Subtasks : owner[s] = {b}}
        holding == {s \in owned : HoldsSlot(s)}
    IN  /\ b \in ready
        /\ ready' = ready \ {b}
        /\ sub_state' = [s \in Subtasks |->
                            IF s \in holding /\ ~HasBudget(s) THEN "FAILED"
                            ELSE IF s \in owned THEN "PENDING"
                            ELSE sub_state[s]]
        /\ resched' = [s \in Subtasks |->
                          IF s \in holding /\ HasBudget(s) THEN resched[s] + 1
                          ELSE resched[s]]
        /\ owner' = [s \in Subtasks |-> IF s \in owned THEN {} ELSE owner[s]]
        /\ queue' = [queue EXCEPT ![b] = <<>>]
        /\ free_slots' = ReleaseAll(free_slots, holding)
        /\ UNCHANGED <<sub_exclude, assigner_side>>

\* a band leaves READY: its SUBMITTED and RUNNING subtasks are band-lost
\* (PENDING with one more reschedule if retryable and budget remains, FAILED
\* otherwise) and release their slots; its other subtasks leave its queue
\* and go back to the Assigner; all of them exclude the band
BandLost(b) ==
    LET owned == {s \in Subtasks : owner[s] = {b}}
        holding == {s \in owned : HoldsSlot(s)}
    IN  /\ b \in ready
        /\ ready' = ready \ {b}
        /\ sub_state' = [s \in Subtasks |->
                            IF s \in holding /\ ~HasBudget(s) THEN "FAILED"
                            ELSE IF s \in owned THEN "PENDING"
                            ELSE sub_state[s]]
        /\ resched' = [s \in Subtasks |->
                          IF s \in holding /\ HasBudget(s) THEN resched[s] + 1
                          ELSE resched[s]]
        /\ sub_exclude' = [s \in Subtasks |->
                              IF s \in owned THEN sub_exclude[s] \cup {b}
                              ELSE sub_exclude[s]]
        /\ owner' = [s \in Subtasks |-> IF s \in owned THEN {} ELSE owner[s]]
        /\ queue' = [queue EXCEPT ![b] = <<>>]
        /\ free_slots' = ReleaseAll(free_slots, holding)
        /\ UNCHANGED assigner_side

\* a band becomes READY
BandReady(b) ==
    /\ b \notin ready
    /\ ready' = ready \cup {b}
    /\ UNCHANGED <<sub_state, owner, resched, sub_exclude, queue, free_slots,
                   assigner_side>>

\* rebalance after reassign_subtasks: the lowest entry of the queue of band
\* a (drain_n) moves to the queue of the READY band b, which owns it then
Rebalance(a, b) ==
    /\ a # b
    /\ b \in ready
    /\ queue[a] # <<>>
    /\ LET s == queue[a][Len(queue[a])]
       IN  /\ queue' = Move(queue, s, a, b)
           /\ owner' = [owner EXCEPT ![s] = {b}]
    /\ UNCHANGED <<sub_state, resched, sub_exclude, free_slots, ready,
                   assigner_side>>

NextSched ==
    \/ \E s \in Subtasks : Submit(s)
    \/ \E s \in Subtasks : Assigned(s)
    \/ \E s \in Subtasks : Enqueued(s)
    \/ \E b \in SchedBands : SlotAcquired(b)
    \/ \E s \in Subtasks, status \in Reports : OnWorkerReport(s, status)
    \/ \E s \in Subtasks : Cancel(s)
    \/ \E b \in SchedBands : BandLost(b)
    \/ \E b \in SchedBands : BandReady(b)
    \/ \E a \in SchedBands, b \in SchedBands : Rebalance(a, b)

SpecSched == Init /\ [][NextSched]_vars

\* a batch with no failure, no cancel and no band change
NextDrain ==
    \/ \E s \in Subtasks : Submit(s)
    \/ \E s \in Subtasks : Assigned(s)
    \/ \E s \in Subtasks : Enqueued(s)
    \/ \E b \in SchedBands : SlotAcquired(b)
    \/ \E s \in Subtasks, status \in {"started", "succeeded"} :
          OnWorkerReport(s, status)

\* the manager, the submit loop and the workers go on
SpecDrain ==
    /\ Init
    /\ [][NextDrain]_vars
    /\ \A s \in Subtasks :
          /\ WF_vars(Assigned(s))
          /\ WF_vars(Enqueued(s))
          /\ WF_vars(OnWorkerReport(s, "started"))
          /\ WF_vars(OnWorkerReport(s, "succeeded"))
    /\ \A b \in SchedBands : WF_vars(SlotAcquired(b))

----------------------------------------------------------------------------
(***************************************************************************)
(* SchedulingSupervisorService.create_session and destroy_session          *)
(* (services/scheduling/supervisor/service.py lines 79-147).  Each await   *)
(* is a step.  Creating an actor whose uid exists raises, destroying an    *)
(* actor that does not exist raises, and every call into the pool or the   *)
(* autoscaler may raise.  asyncio.gather raises with the first coroutine   *)
(* that raises and leaves the others running; they end before the next     *)
(* call of the service begins.                                             *)
(***************************************************************************)
SessionActors == {"assigner", "queueing", "manager"}
CreateTask(a) == [op |-> "create", actor |-> a]
DestroyTask(a) == [op |-> "destroy", actor |-> a]
CreatePhases == {"gather", "manager", "register"}
ServiceIdle == s_pc = "idle" /\ s_tasks = {}

CreateSessionAllAtOnce ==
    /\ ServiceIdle
    /\ s_before' = actors
    /\ s_tasks' = {CreateTask(a) : a \in SessionActors}
    /\ s_pc' = "gather"
    /\ UNCHANGED <<actors, registered, s_result>>
    /\ UNCHANGED <<assigner_vars, assign_vars, reassign_vars, cluster_vars,
                   sched_vars>>

\* create_session up to asyncio.gather (lines 79-107): the coroutines that
\* create the Assigner and the Queueing actor are started together
CreateSession ==
    /\ ServiceIdle
    /\ s_before' = actors
    /\ s_tasks' = {CreateTask("assigner"), CreateTask("queueing")}
    /\ s_pc' = "gather"
    /\ UNCHANGED <<actors, registered, s_result>>
    /\ UNCHANGED <<assigner_vars, assign_vars, reassign_vars, cluster_vars,
                   sched_vars>>

\* what the call that awaits the gather of t does when t has ended well
AfterTask(t, left) ==
    IF s_pc = "gather" /\ t.op = "create" /\ left = {}
    THEN s_pc' = "manager" /\ UNCHANGED s_result
    ELSE IF s_pc = "destroy" /\ t.op = "destroy" /\ left = {}
         THEN s_pc' = "idle" /\ s_result' = "destroyed"
         ELSE UNCHANGED <<s_pc, s_result>>

\* a coroutine of a gather ends well (lines 107 and 147): the actor is
\* created, or destroyed
TaskSucceeds(t) ==
    /\ t \in s_tasks
    /\ s_tasks' = s_tasks \ {t}
    /\ IF t.op = "create"
       THEN t.actor \notin actors /\ actors' = actors \cup {t.actor}
       ELSE t.actor \in actors /\ actors' = actors \ {t.actor}
    /\ AfterTask(t, s_tasks \ {t})
    /\ UNCHANGED <<registered, s_before>>
    /\ UNCHANGED <<assigner_vars, assign_vars, reassign_vars, cluster_vars,
                   sched_vars>>

\* a coroutine of a gather raises: the call that awaits the gather raises
\* at once, the other coroutines go on
TaskFails(t) ==
    /\ t \in s_tasks
    /\ s_tasks' = s_tasks \ {t}
    /\ IF s_pc = "gather" /\ t.op = "create"
       THEN s_pc' = "idle" /\ s_result' = "create_raised"
       ELSE IF s_pc = "destroy" /\ t.op = "destroy"
            THEN s_pc' = "idle" /\ s_result' = "destroy_raised"
            ELSE UNCHANGED <<s_pc, s_result>>
    /\ UNCHANGED <<actors, registered, s_before>>
    /\ UNCHANGED <<assigner_vars, assign_vars, reassign_vars, cluster_vars,
                   sched_vars>>

\* await mo.create_actor(SubtaskManagerActor, ...) (lines 111-119)
CreateManager ==
    /\ s_pc = "manager"
    /\ \/ /\ "manager" \notin actors
          /\ actors' = actors \cup {"manager"}
          /\ s_pc' = "register"
          /\ UNCHANGED s_result
       \/ /\ s_pc' = "idle"
          /\ s_result' = "create_raised"
          /\ UNCHANGED actors
    /\ UNCHANGED <<registered, s_tasks, s_before>>
    /\ UNCHANGED <<assigner_vars, assign_vars, reassign_vars, cluster_vars,
                   sched_vars>>

\* the autoscaler is looked up and the session is registered (lines 124-128)
RegisterSession ==
    /\ s_pc = "register"
    /\ s_pc' = "idle"
    /\ \/ registered' = TRUE /\ s_result' = "created"
       \/ UNCHANGED registered /\ s_result' = "create_raised"
    /\ UNCHANGED <<actors, s_tasks, s_before>>
    /\ UNCHANGED <<assigner_vars, assign_vars, reassign_vars, cluster_vars,
                   sched_vars>>

\* destroy_session up to the first await (lines 130-138)
DestroySession ==
    /\ ServiceIdle
    /\ s_pc' = "unregister"
    /\ UNCHANGED <<actors, registered, s_tasks, s_result, s_before>>
    /\ UNCHANGED <<assigner_vars, assign_vars, reassign_vars, cluster_vars,
                   sched_vars>>

UnregisterSkipped ==
    /\ s_pc = "unregister"
    /\ \/ /\ s_tasks' = {DestroyTask(a) : a \in SessionActors}
          /\ s_pc' = "destroy"
          /\ UNCHANGED <<registered, s_result>>
       \/ /\ s_pc' = "idle"
          /\ s_result' = "destroy_raised"
          /\ UNCHANGED <<registered, s_tasks>>
    /\ UNCHANGED <<actors, s_before>>
    /\ UNCHANGED <<assigner_vars, assign_vars, reassign_vars, cluster_vars,
                   sched_vars>>

\* await autoscaler_ref.unregister_session (line 139), then the destroy of
\* each of the three actors is made a task (lines 141-146)
Unregister ==
    /\ s_pc = "unregister"
    /\ \/ /\ registered' = FALSE
          /\ s_tasks' = {DestroyTask(a) : a \in SessionActors}
          /\ s_pc' = "destroy"
          /\ UNCHANGED s_result
       \/ /\ s_pc' = "idle"
          /\ s_result' = "destroy_raised"
          /\ UNCHANGED <<registered, s_tasks>>
    /\ UNCHANGED <<actors, s_before>>
    /\ UNCHANGED <<assigner_vars, assign_vars, reassign_vars, cluster_vars,
                   sched_vars>>

NextSession ==
    \/ CreateSession
    \/ \E t \in s_tasks : TaskSucceeds(t)
    \/ \E t \in s_tasks : TaskFails(t)
    \/ CreateManager
    \/ RegisterSession
    \/ DestroySession
    \/ Unregister

SpecSession == Init /\ [][NextSession]_vars

----------------------------------------------------------------------------
(* Vocabulary of the properties.  They are stated on the state in which a  *)
(* call holds its result, from the arguments of the call and the band list *)
(* alone.                                                                  *)

Done == a_pc = "done"
Succeeded == Done /\ a_result.err = "none"
Raised == Done /\ a_result.err # "none"
Indices == DOMAIN a_subtasks

\* the device class of a subtask: the name prefix its band must have
ClassOf(st) == IF st.op_gpu \/ \E j \in DOMAIN st.nodes : st.nodes[j].gpu
               THEN "gpu" ELSE "numa"
\* the class as NoMatchingSlots names it
ClassArg(st) == IF ClassOf(st) = "gpu" THEN "gpu" ELSE "cpu"
\* the ready bands of the subtask's device class
ReadyClassBands(st) == {b \in bands : b.kind = ClassOf(st)}
\* candidate = device_class_bands \ exclude_bands
CandidateBands(st) == ReadyClassBands(st) \ a_exclude
\* the expect_bands that are in the band list and not in exclude_bands
RemainingExpected(st) == (st.expect_bands \cap bands) \ a_exclude
\* subtasks that take the locality path
OnLocalityPath(st) ==
    st.expect_bands = {} /\ \A j \in DOMAIN st.nodes : st.nodes[j].op # "FetchShuffle"
\* the Fetch sources of a subtask
FetchIdx(st) == {j \in DOMAIN st.nodes : st.nodes[j].op = "Fetch"}
\* every Fetch chunk resides on candidate bands only
AllResidentOnCandidates(st) ==
    \A j \in FetchIdx(st) : \A k \in DOMAIN st.nodes[j].bands :
        st.nodes[j].bands[k] \in CandidateBands(st)
\* sum of w[j] over the sources j in js
RECURSIVE SumOver(_, _)
SumOver(w, js) ==
    IF js = {} THEN 0
    ELSE LET j == CHOOSE x \in js : TRUE IN w[j] + SumOver(w, js \ {j})
\* store_size accumulated on band b over the Fetch chunks resident on it
RawSizeOn(st, b) ==
    SumOver([j \in DOMAIN st.nodes |-> st.nodes[j].size],
            {j \in FetchIdx(st) : \E k \in DOMAIN st.nodes[j].bands :
                                     st.nodes[j].bands[k] = b})
\* the same, a broadcaster chunk counting as 0
SizeOn(st, b) ==
    SumOver([j \in DOMAIN st.nodes |-> st.nodes[j].size],
            {j \in FetchIdx(st) : /\ ~st.nodes[j].bc
                                  /\ \E k \in DOMAIN st.nodes[j].bands :
                                        st.nodes[j].bands[k] = b})
\* the bands some Fetch chunk of the subtask resides on
ResidentBands(st) ==
    {b \in AllBands : \E j \in FetchIdx(st) : \E k \in DOMAIN st.nodes[j].bands :
                         st.nodes[j].bands[k] = b}

----------------------------------------------------------------------------
(* Properties *)

\* C1: for every ready band list and every input map, reassign_subtasks
\* returns a map (it does not raise) and the values of the map sum to zero.
C1_ReassignReturnsZeroSum ==
    r_result.err # "pending" =>
        r_result.err = "none" /\ SumValues(r_result.moves) = 0

\* C2: whenever assign_subtasks returns for a subtask with bands_specified,
\* the band returned for it is one of its expect_bands.
C2_SpecifiedBandIsExpected ==
    Succeeded =>
        \A i \in Indices :
            a_subtasks[i].bands_specified =>
                a_result.assigns[i] \in a_subtasks[i].expect_bands
C2_Witness ==
    /\ Succeeded
    /\ \E i \in Indices :
          /\ a_subtasks[i].bands_specified
          /\ a_result.assigns[i] \in a_subtasks[i].expect_bands

\* C3 as claimed: with bands_specified and no expected band both ready and
\* not excluded, the call fails with NoAvailableBand and nothing else.
C3_Original ==
    Done =>
        \A i \in Indices :
            (/\ a_subtasks[i].bands_specified
             /\ a_subtasks[i].expect_bands # {}
             /\ RemainingExpected(a_subtasks[i]) = {})
            => (a_result.idx = i /\ a_result.err = "NoAvailableBand")

\* C3 amended: for such a subtask the call never returns a band outside
\* expect_bands.  It fails with NoMatchingSlots when no band of the
\* subtask's class is ready, with NoAvailableBand when one is and either a
\* candidate band exists or random_when_unavailable is false; when
\* random_when_unavailable is true and every ready band of the class is
\* excluded it fails with NoAvailableBand or returns an excluded band that
\* is one of expect_bands.
C3_SpecifiedUnavailable ==
    Done =>
        \A i \in Indices :
            (/\ a_subtasks[i].bands_specified
             /\ a_subtasks[i].expect_bands # {}
             /\ RemainingExpected(a_subtasks[i]) = {})
            => IF ReadyClassBands(a_subtasks[i]) = {}
               THEN a_result.idx = i /\ a_result.err = "NoMatchingSlots"
               ELSE IF CandidateBands(a_subtasks[i]) # {} \/ ~a_rwu
               THEN a_result.idx = i /\ a_result.err = "NoAvailableBand"
               ELSE \/ a_result.idx = i /\ a_result.err = "NoAvailableBand"
                    \/ /\ a_result.err = "none"
                       /\ a_result.assigns[i] \in
                              a_subtasks[i].expect_bands \cap a_exclude
C3_Witness ==
    /\ Done
    /\ \E i \in Indices :
          /\ a_subtasks[i].bands_specified
          /\ a_subtasks[i].expect_bands # {}
          /\ RemainingExpected(a_subtasks[i]) = {}
          /\ ReadyClassBands(a_subtasks[i]) # {}
          /\ a_result.idx = i
          /\ a_result.err = "NoAvailableBand"

C5_NoExcludedBandWhenNotRandom ==
    (Succeeded /\ ~a_rwu) =>
        \A i \in Indices : a_result.assigns[i] \notin a_exclude
\* a call that returns with a non-empty exclude_bands, and a call that fails
\* because every ready band of the class is excluded
C5_Witness ==
    /\ Succeeded
    /\ ~a_rwu
    /\ \E i \in Indices :
          /\ ReadyClassBands(a_subtasks[i]) \cap a_exclude # {}
          /\ a_result.assigns[i] \notin a_exclude

\* C6: whenever a ready band of the subtask's class is not excluded, the
\* band returned for the subtask is not in exclude_bands, for both values
\* of random_when_unavailable.
C6_NoExcludedBandWhenCandidate ==
    Succeeded =>
        \A i \in Indices :
            CandidateBands(a_subtasks[i]) # {}
            => a_result.assigns[i] \notin a_exclude
\* S3: a chunk resident on an excluded band, the result a band not excluded
C6_Witness ==
    /\ Succeeded
    /\ a_rwu
    /\ \E i \in Indices :
          /\ OnLocalityPath(a_subtasks[i])
          /\ ResidentBands(a_subtasks[i]) \cap a_exclude
                 \cap ReadyClassBands(a_subtasks[i]) # {}
          /\ a_result.assigns[i] \notin a_exclude

\* C7 as claimed: on the locality path, with every Fetch chunk resident on
\* candidate bands, the band returned has the largest store_size summed
\* over the Fetch chunks resident on it.
C7_Original ==
    Succeeded =>
        \A i \in Indices :
            (OnLocalityPath(a_subtasks[i]) /\ AllResidentOnCandidates(a_subtasks[i]))
            => \A b \in AllBands :
                  RawSizeOn(a_subtasks[i], b)
                      <= RawSizeOn(a_subtasks[i], a_result.assigns[i])

\* C7 amended: the band returned is a band some Fetch chunk of the subtask
\* resides on, and its accumulated store_size, a broadcaster chunk counting
\* as 0, is the largest among all bands (so a unique maximum is the result).
C7_MaxAccumulatedSize ==
    Succeeded =>
        \A i \in Indices :
            (OnLocalityPath(a_subtasks[i]) /\ AllResidentOnCandidates(a_subtasks[i]))
            => /\ a_result.assigns[i] \in ResidentBands(a_subtasks[i])
               /\ \A b \in AllBands :
                     SizeOn(a_subtasks[i], b)
                         <= SizeOn(a_subtasks[i], a_result.assigns[i])
\* S1: two bands hold different sizes and the larger one is returned
C7_Witness ==
    /\ Succeeded
    /\ \E i \in Indices :
          /\ OnLocalityPath(a_subtasks[i])
          /\ AllResidentOnCandidates(a_subtasks[i])
          /\ \E b \in ResidentBands(a_subtasks[i]) :
                /\ 0 < SizeOn(a_subtasks[i], b)
                /\ SizeOn(a_subtasks[i], b)
                       < SizeOn(a_subtasks[i], a_result.assigns[i])

\* C8: a broadcaster Fetch chunk adds nothing to band_sizes (the sizes
\* accumulated over all bands are those of the other Fetch chunks, once per
\* resident band), and when every Fetch chunk resides on candidate bands and
\* one of them is not a broadcaster, the band returned holds a Fetch chunk
\* that is not a broadcaster.
C8_BroadcasterAddsZero ==
    Succeeded =>
        \A i \in Indices :
            OnLocalityPath(a_subtasks[i])
            => /\ SumValues(a_result.sizes[i]) =
                     SumOver([j \in DOMAIN a_subtasks[i].nodes |->
                                 a_subtasks[i].nodes[j].size
                                     * Len(a_subtasks[i].nodes[j].bands)],
                             {j \in FetchIdx(a_subtasks[i]) :
                                 ~a_subtasks[i].nodes[j].bc})
               /\ (/\ AllResidentOnCandidates(a_subtasks[i])
                   /\ \E j \in FetchIdx(a_subtasks[i]) : ~a_subtasks[i].nodes[j].bc)
                  => SizeOn(a_subtasks[i], a_result.assigns[i]) > 0
\* S2: a broadcaster on one band larger than the plain chunk on another band
C8_Witness ==
    /\ Succeeded
    /\ \E i \in Indices :
          /\ OnLocalityPath(a_subtasks[i])
          /\ AllResidentOnCandidates(a_subtasks[i])
          /\ \E j \in FetchIdx(a_subtasks[i]), k \in FetchIdx(a_subtasks[i]) :
                /\ a_subtasks[i].nodes[j].bc
                /\ ~a_subtasks[i].nodes[k].bc
                /\ a_subtasks[i].nodes[j].size > a_subtasks[i].nodes[k].size
                /\ a_subtasks[i].nodes[j].bands # a_subtasks[i].nodes[k].bands
                /\ a_result.assigns[i] = a_subtasks[i].nodes[k].bands[1]

\* C9 as claimed: with an expected band that is ready and not excluded, the
\* call returns one of the remaining expected bands.
C9_Original ==
    Done =>
        \A i \in Indices :
            RemainingExpected(a_subtasks[i]) # {}
            => /\ a_result.err = "none"
               /\ a_result.assigns[i] \in RemainingExpected(a_subtasks[i])

\* C9 amended: it does so provided the band list has a band of the
\* subtask's device class; otherwise the call fails with NoMatchingSlots.
C9_RemainingExpectedBand ==
    Done =>
        \A i \in Indices :
            RemainingExpected(a_subtasks[i]) # {}
            => IF ReadyClassBands(a_subtasks[i]) # {}
               THEN /\ a_result.err = "none"
                    /\ a_result.assigns[i] \in RemainingExpected(a_subtasks[i])
               ELSE a_result.idx = i /\ a_result.err = "NoMatchingSlots"
\* an expected band is returned although the input chunk resides elsewhere
\* and another expected band is not available
C9_Witness ==
    /\ Succeeded
    /\ \E i \in Indices :
          /\ a_result.assigns[i] \in RemainingExpected(a_subtasks[i])
          /\ a_subtasks[i].expect_bands # RemainingExpected(a_subtasks[i])
          /\ ResidentBands(a_subtasks[i]) # {}
          /\ a_result.assigns[i] \notin ResidentBands(a_subtasks[i])
          /\ ResidentBands(a_subtasks[i]) \subseteq CandidateBands(a_subtasks[i])

\* C10 as claimed: the band returned for a subtask always has the name
\* prefix of the subtask's device class.
C10_Original ==
    Succeeded =>
        \A i \in Indices : a_result.assigns[i].kind = ClassOf(a_subtasks[i])

\* C10 amended: the band returned has the prefix of the subtask's device
\* class on the FetchShuffle path, on the locality path and when no expected
\* band is ready and not excluded; a remaining expected band is returned
\* whatever its prefix.
C10_DeviceClass ==
    Succeeded =>
        \A i \in Indices :
            \/ a_result.assigns[i].kind = ClassOf(a_subtasks[i])
            \/ a_result.assigns[i] \in RemainingExpected(a_subtasks[i])
\* a GPU subtask whose only input resides on a CPU band gets a GPU band
C10_Witness ==
    /\ Succeeded
    /\ \E i \in Indices :
          /\ OnLocalityPath(a_subtasks[i])
          /\ ClassOf(a_subtasks[i]) = "gpu"
          /\ \A b \in ResidentBands(a_subtasks[i]) : b.kind = "numa"
          /\ ResidentBands(a_subtasks[i]) # {}
          /\ a_result.assigns[i].kind = "gpu"

----------------------------------------------------------------------------
(* Vocabulary of the properties of reassign_subtasks, on the state in which *)
(* the call holds its result                                                *)

Returned == r_result.err = "none"
Classes == {"numa", "gpu"}
\* the ready bands and the input bands of a device class
ReadyOf(k) == {b \in bands : b.kind = k}
InputOf(k) == {b \in DOMAIN r_in : b.kind = k}
\* the queued count of a band in the input, 0 when absent
CountOf(b) == IF b \in DOMAIN r_in THEN r_in[b] ELSE 0
\* the delta of a band in the returned map; a band the map leaves out moves
\* nothing
DeltaOf(b) == IF b \in DOMAIN r_result.moves THEN r_result.moves[b] ELSE 0
\* the sum of the input counts of the bands in S
TotalOf(S) == SumOver([b \in AllBands |-> CountOf(b)], S)
\* a new-ready band exists or no input band is unready
WholeInput(k) == ReadyOf(k) \ InputOf(k) # {} \/ InputOf(k) \subseteq ReadyOf(k)
\* no new-ready band exists and some input band is unready
OnlyUnready(k) == ReadyOf(k) \subseteq InputOf(k) /\ InputOf(k) \ ReadyOf(k) # {}

\* C11: when the working set is the whole input, every ready band of the
\* class gets floor(sum of the input counts / number of ready bands) minus
\* its own input count, and at most one band, a CPU band, gets the residual
\* on top of it.
C11_MeanMinusCount ==
    Returned =>
        \A k \in Classes :
            ReadyOf(k) # {} /\ WholeInput(k) =>
                LET n == Cardinality(ReadyOf(k))
                    total == TotalOf(InputOf(k))
                IN  \E c \in ReadyOf(k) :
                        /\ total % n # 0 => c.kind = "numa"
                        /\ \A b \in ReadyOf(k) :
                              DeltaOf(b) = (total \div n) - CountOf(b)
                                  + (IF b = c THEN total % n ELSE 0)
\* S4 scaled to the bound: ready {B1,B2,B3}, input {B1:3, B2:0} gives
\* {B1:-2, B2:+1, B3:+1}
C11_Witness ==
    /\ Returned
    /\ ReadyOf("numa") = {Band("A", "numa", 0), Band("A", "numa", 1),
                          Band("B", "numa", 0)}
    /\ r_in = [b \in {Band("A", "numa", 0), Band("A", "numa", 1)} |->
                  IF b.idx = 0 THEN 3 ELSE 0]
    /\ r_result.moves[Band("A", "numa", 0)] = -2
    /\ r_result.moves[Band("A", "numa", 1)] = 1
    /\ r_result.moves[Band("B", "numa", 0)] = 1

\* C12 as stated: with no new-ready band and some unready input band, each
\* unready band sheds its whole count and the whole shed amount goes to a
\* single ready CPU band, the other ready bands getting nothing.
C12_Original ==
    Returned =>
        \A k \in Classes :
            ReadyOf(k) # {} /\ OnlyUnready(k) =>
                /\ \A b \in InputOf(k) \ ReadyOf(k) :
                      b \in DOMAIN r_result.moves /\ DeltaOf(b) = 0 - CountOf(b)
                /\ \E c \in ReadyOf("numa") :
                      \A b \in ReadyOf(k) :
                          DeltaOf(b) = IF b = c
                                       THEN TotalOf(InputOf(k) \ ReadyOf(k))
                                       ELSE 0
\* C12: with no new-ready band and some unready input band, each unready
\* band sheds its whole count and every ready band of the class receives
\* floor(shed amount / number of ready bands) whatever its own count, one
\* CPU band receiving the remainder on top of it.
C12_UnreadyShedEvenly ==
    Returned =>
        \A k \in Classes :
            ReadyOf(k) # {} /\ OnlyUnready(k) =>
                LET n == Cardinality(ReadyOf(k))
                    shed == TotalOf(InputOf(k) \ ReadyOf(k))
                IN  /\ \A b \in InputOf(k) \ ReadyOf(k) :
                          b \in DOMAIN r_result.moves
                              /\ DeltaOf(b) = 0 - CountOf(b)
                    /\ \E c \in ReadyOf(k) :
                          /\ shed % n # 0 => c.kind = "numa"
                          /\ \A b \in ReadyOf(k) :
                                DeltaOf(b) = (shed \div n)
                                    + (IF b = c THEN shed % n ELSE 0)
\* ready {A-numa-0, A-numa-1}, input {A-numa-0:1, A-numa-1:0, B-numa-0:3}:
\* B-numa-0 sheds 3, both ready bands receive 1 and one of them 1 more
C12_Witness ==
    /\ Returned
    /\ ReadyOf("numa") = {Band("A", "numa", 0), Band("A", "numa", 1)}
    /\ DOMAIN r_in = {Band("A", "numa", 0), Band("A", "numa", 1),
                      Band("B", "numa", 0)}
    /\ r_in[Band("A", "numa", 0)] = 1
    /\ r_in[Band("A", "numa", 1)] = 0
    /\ r_in[Band("B", "numa", 0)] = 3
    /\ r_result.moves[Band("B", "numa", 0)] = -3
    /\ r_result.moves[Band("A", "numa", 0)] = 1
    /\ r_result.moves[Band("A", "numa", 1)] = 2

\* C13 as stated: every input band that is not ready is in the returned map
\* with minus its count, whatever the band list is.
C13_Original ==
    Returned =>
        \A b \in DOMAIN r_in \ bands :
            b \in DOMAIN r_result.moves /\ r_result.moves[b] = 0 - r_in[b]
\* C13: every input band that is not ready is in the returned map with minus
\* its count when the band list has a ready band of its device class, and is
\* not in the map when it has none.
C13_UnreadyShedsAll ==
    Returned =>
        \A b \in DOMAIN r_in \ bands :
            IF ReadyOf(b.kind) # {}
            THEN b \in DOMAIN r_result.moves /\ r_result.moves[b] = 0 - r_in[b]
            ELSE b \notin DOMAIN r_result.moves
\* an unready band with queued subtasks sheds them onto a ready band
C13_Witness ==
    /\ Returned
    /\ \E b \in DOMAIN r_in \ bands :
          /\ r_in[b] > 0
          /\ ReadyOf(b.kind) # {}
          /\ b \in DOMAIN r_result.moves
          /\ r_result.moves[b] = 0 - r_in[b]
          /\ \E c \in ReadyOf(b.kind) : DeltaOf(c) > 0

\* C14: the band list held by the Assigner is never replaced by a snapshot
\* older than the one it holds, whatever the order in which the watch task
\* and the lazy load of assign_subtasks are resumed.
C14_NoStaleOverwrite == [][bands_version' >= bands_version]_vars

\* C15: while the cluster API is unreachable the watch task goes on and the
\* Assigner keeps its band list (the unchanged snapshot the watch yields
\* after a backoff does not alter the list), and every snapshot the watch
\* emits is eventually applied.
C15_UnreachableKeepsBands ==
    /\ [][(/\ watch_reply # NoSnapshot
           /\ watch_reply = watch_last
           /\ watch_reply' = NoSnapshot) => bands' = bands]_vars
    /\ \A v \in 0..MaxVersion :
          (watch_reply.version = v) ~> (watch_last.version = v)

\* the list of bands the caller of assign_subtasks receives: a call that
\* raises hands over no list
ReceivedBands == IF a_result.err = "none" THEN a_result.assigns ELSE <<>>
\* a subtask that assign_subtasks assigns when it is passed alone: it takes
\* the locality path and all its chunks reside on candidate bands
AssignableAlone(st) ==
    /\ OnLocalityPath(st)
    /\ ~st.bands_specified
    /\ FetchIdx(st) # {}
    /\ AllResidentOnCandidates(st)

\* C16: when a subtask of a batch cannot be assigned (NoAvailableBand or
\* NoMatchingSlots), the other subtasks of the batch that can be assigned
\* still receive their bands.
C16_FailureIsolated ==
    (Done /\ a_result.err \in {"NoAvailableBand", "NoMatchingSlots"}) =>
        \A i \in Indices :
            (i # a_result.idx /\ AssignableAlone(a_subtasks[i])) =>
                i \in DOMAIN ReceivedBands

----------------------------------------------------------------------------
(* Properties of the scheduler *)

\* the number of subtasks that hold a slot, on band b and on all bands
HoldingOn(b) == Cardinality({s \in Subtasks : HoldsSlot(s) /\ owner[s] = {b}})
Holding == Cardinality({s \in Subtasks : HoldsSlot(s)})
\* the sum of f over the bands in B
RECURSIVE SumBands(_, _)
SumBands(f, B) ==
    IF B = {} THEN 0
    ELSE LET b == CHOOSE x \in B : TRUE IN f[b] + SumBands(f, B \ {b})
\* the number of entries of the queue q that are subtask s
Entries(q, s) == Cardinality({i \in DOMAIN q : q[i] = s})

\* C17: the free slots of all bands and the SUBMITTED and RUNNING subtasks
\* add up to the capacity of all bands, and on each band the reserved slots
\* are the SUBMITTED and RUNNING subtasks the band owns.
C17_SlotAccounting ==
    /\ SumBands(free_slots, SchedBands) + Holding
           = SumBands([b \in SchedBands |-> Capacity(b)], SchedBands)
    /\ \A b \in SchedBands : Capacity(b) - free_slots[b] = HoldingOn(b)
\* a slot has been released by a failure and another is held
C17_Witness ==
    \E s \in Subtasks, t \in Subtasks :
        /\ resched[s] > 0
        /\ sub_state[s] = "PENDING"
        /\ sub_state[t] = "RUNNING"
        /\ free_slots[OwnerOf(t)] = Capacity(OwnerOf(t)) - 1

\* C18: no subtask is in more than one BandQueue, and every ASSIGNED,
\* QUEUED, SUBMITTED or RUNNING subtask has exactly one owning band.
C18_OneQueueOneOwner ==
    \A s \in Subtasks :
        /\ SumBands([b \in SchedBands |-> Entries(queue[b], s)], SchedBands) <= 1
        /\ sub_state[s] \in {"ASSIGNED", "QUEUED", "SUBMITTED", "RUNNING"}
               => Cardinality(owner[s]) = 1
        /\ sub_state[s] = "QUEUED" => Entries(queue[OwnerOf(s)], s) = 1
\* a subtask that was rebalanced away from the band that lost it before
C18_Witness ==
    \E s \in Subtasks :
        /\ sub_state[s] = "QUEUED"
        /\ sub_exclude[s] # {}
        /\ owner[s] \subseteq sub_exclude[s]

\* C19: the reschedule count of a subtask never exceeds
\* subtask_max_reschedules, 3 by default.
C19_RescheduleBudget ==
    \A s \in Subtasks : resched[s] <= subtask_max_reschedules
\* a subtask that used its whole budget failed again and is FAILED
C19_Witness ==
    \E s \in Subtasks :
        sub_state[s] = "FAILED" /\ resched[s] = subtask_max_reschedules

\* every subtask of the batch is SUCCEEDED and every slot is free
Drained ==
    /\ \A s \in Subtasks : sub_state[s] \in {"NONE", "SUCCEEDED"}
    /\ \A b \in SchedBands : free_slots[b] = Capacity(b)
\* C20: with no failure, cancel or band loss, every submitted subtask is
\* eventually SUCCEEDED with all free_slots back at capacity.
C20_Drain ==
    \A s \in Subtasks :
        (sub_state[s] = "PENDING") ~> (Drained /\ sub_state[s] = "SUCCEEDED")
\* the whole batch has run and succeeded
C20_Witness ==
    /\ \A s \in Subtasks : sub_state[s] = "SUCCEEDED"
    /\ \A b \in SchedBands : free_slots[b] = Capacity(b)

\* C21: cancel is idempotent: from every state, cancelling a subtask twice
\* leaves the subtask states, the owners, the band queues and free_slots as
\* one cancel does, so the slot of a SUBMITTED or RUNNING subtask is given
\* back once.
C21_CancelIdempotent ==
    \A s \in Subtasks : CancelOf(CancelOf(Sched, s), s) = CancelOf(Sched, s)
\* a subtask has been cancelled and cancelling another one, which holds a
\* slot, twice gives exactly that slot back
C21_Witness ==
    \E s \in Subtasks, t \in Subtasks :
        /\ sub_state[s] = "CANCELLED"
        /\ HoldsSlot(t)
        /\ CancelOf(CancelOf(Sched, t), t).free_slots[OwnerOf(t)]
               = free_slots[OwnerOf(t)] + 1

\* C22: when a band leaves READY while a retryable subtask with remaining
\* budget is RUNNING on it, the subtask goes to PENDING with one more
\* reschedule and the lost band in its exclude_bands, the slots held on the
\* lost band are released, and the band the subtask is assigned next is not
\* the lost one.
C22_BandLoss ==
    [][\A s \in Subtasks :
          /\ \A b \in SchedBands :
                (/\ b \in ready
                 /\ b \notin ready'
                 /\ owner[s] = {b}
                 /\ sub_state[s] = "RUNNING"
                 /\ HasBudget(s))
                => /\ sub_state'[s] = "PENDING"
                   /\ resched'[s] = resched[s] + 1
                   /\ b \in sub_exclude'[s]
                   /\ free_slots'[b] = free_slots[b] + HoldingOn(b)
                   /\ free_slots'[b] > free_slots[b]
          /\ (sub_state[s] = "PENDING" /\ sub_state'[s] = "ASSIGNED")
                => owner'[s] \cap sub_exclude[s] = {}]_vars
\* S6: the subtask that ran on the lost band is assigned to the other band
C22_Witness ==
    \E s \in Subtasks, b \in SchedBands :
        /\ b \notin ready
        /\ sub_exclude[s] = {b}
        /\ resched[s] = 1
        /\ sub_state[s] = "ASSIGNED"
        /\ owner[s] = SchedBands \ {b}
        /\ free_slots[b] = Capacity(b)

\* the reports that are a transition of the FSM from a state
ValidReport(state, status) ==
    \/ status = "started" /\ state = "SUBMITTED"
    \/ status \in {"succeeded", "failed_transient", "failed_permanent"}
          /\ state = "RUNNING"

\* C23: a worker report that is not a valid transition from the subtask's
\* current state leaves the scheduler's state as it is, and no step takes a
\* subtask out of SUCCEEDED, FAILED or CANCELLED other than FAILED back to
\* PENDING with budget remaining.
C23_InvalidReportDropped ==
    [][\A s \in Subtasks :
          /\ \A status \in Reports :
                (OnWorkerReport(s, status) /\ ~ValidReport(sub_state[s], status))
                => UNCHANGED sched_vars
          /\ (sub_state[s] \in Terminal /\ sub_state'[s] # sub_state[s])
                => /\ sub_state[s] = "FAILED"
                   /\ sub_state'[s] = "PENDING"
                   /\ HasBudget(s)]_vars
\* a subtask that ran, failed and was cancelled afterwards, for which every
\* report is out of order, beside one that went on and succeeded
C23_Witness ==
    \E s \in Subtasks, t \in Subtasks :
        /\ sub_state[s] = "CANCELLED"
        /\ resched[s] > 0
        /\ \A status \in Reports : ~ValidReport(sub_state[s], status)
        /\ sub_state[t] = "SUCCEEDED"
        /\ \A b \in SchedBands : free_slots[b] = Capacity(b)

----------------------------------------------------------------------------
(* Further properties of assign_subtasks and reassign_subtasks *)

\* a Fetch chunk of the subtask resides on a band of the other device class
WrongClassResident(st) == \E b \in ResidentBands(st) : b.kind # ClassOf(st)
\* the bands of the subtask's class at the address of band r that are in
\* the band list and not excluded
SameAddressBands(st, r) ==
    {b \in ReadyClassBands(st) : b.addr = r.addr /\ b \notin a_exclude}

\* C24: when a Fetch chunk's resident band has the wrong device class, the
\* call fails with NoMatchingSlots or NoAvailableBand or not at all, also
\* when the band list has no band at the chunk's address; a subtask whose
\* only chunk is such a chunk gets a non-excluded band of its class at the
\* same address, or a candidate band when there is none.
C24_WrongClassProjected ==
    Done =>
        \A i \in Indices :
            (OnLocalityPath(a_subtasks[i]) /\ WrongClassResident(a_subtasks[i]))
            => /\ a_result.err \in {"none", "NoMatchingSlots", "NoAvailableBand"}
               /\ (/\ a_result.err = "none"
                   /\ Cardinality(FetchIdx(a_subtasks[i])) = 1)
                  => \A r \in ResidentBands(a_subtasks[i]) :
                        a_result.assigns[i] \in
                            IF SameAddressBands(a_subtasks[i], r) # {}
                            THEN SameAddressBands(a_subtasks[i], r)
                            ELSE IF CandidateBands(a_subtasks[i]) # {}
                            THEN CandidateBands(a_subtasks[i])
                            ELSE ReadyClassBands(a_subtasks[i])

\* C25: a call that succeeds returns one band per subtask of the batch, the
\* i-th for the i-th subtask (one of its expect_bands when bands_specified,
\* a band of its device class otherwise), and the call succeeds when every
\* subtask of the batch, none with bands_specified, has a candidate band,
\* also a subtask with no expect_bands and no Fetch or FetchShuffle source.
C25_OneBandPerSubtask ==
    /\ Succeeded =>
          /\ DOMAIN a_result.assigns = Indices
          /\ \A i \in Indices :
                IF a_subtasks[i].expect_bands # {}
                THEN a_subtasks[i].bands_specified
                        => a_result.assigns[i] \in a_subtasks[i].expect_bands
                ELSE a_result.assigns[i].kind = ClassOf(a_subtasks[i])
    /\ (Done /\ \A i \in Indices : /\ ~a_subtasks[i].bands_specified
                                    /\ CandidateBands(a_subtasks[i]) # {})
          => a_result.err = "none"

\* what the GPU pass sums: the counts of the unready GPU bands when no ready
\* GPU band is new and some input GPU band is unready, of all GPU bands of
\* the input otherwise
GpuWorkingTotal ==
    IF OnlyUnready("gpu") THEN TotalOf(InputOf("gpu") \ ReadyOf("gpu"))
    ELSE TotalOf(InputOf("gpu"))
\* the deltas of the GPU class have a negative total
GpuResidual ==
    /\ ReadyOf("gpu") # {}
    /\ GpuWorkingTotal % Cardinality(ReadyOf("gpu")) # 0

\* C26: when the deltas of the GPU class have a negative total, the call
\* does not fail: it returns a map that sums to zero in which a ready CPU
\* band is credited.
C26_GpuResidualToCpu ==
    (r_result.err # "pending" /\ GpuResidual) =>
        /\ r_result.err = "none"
        /\ SumValues(r_result.moves) = 0
        /\ \E c \in ReadyOf("numa") : c \in DOMAIN r_result.moves

\* subtasks on the FetchShuffle path: a FetchShuffle source, no expect_bands
OnShufflePath(st) ==
    /\ st.expect_bands = {}
    /\ ~st.bands_specified
    /\ \E j \in DOMAIN st.nodes : st.nodes[j].op = "FetchShuffle"

C28_SilentSubstitution ==
    Done =>
        \A i \in Indices :
            (/\ a_subtasks[i].expect_bands # {}
             /\ ~a_subtasks[i].bands_specified
             /\ RemainingExpected(a_subtasks[i]) = {}
             /\ CandidateBands(a_subtasks[i]) # {})
            => /\ a_result.err = "none"
               /\ a_result.assigns[i] \in CandidateBands(a_subtasks[i])
\* the expected band is ready but excluded and another band is returned
C28_Witness ==
    /\ Succeeded
    /\ \E i \in Indices :
          /\ a_subtasks[i].expect_bands # {}
          /\ ~a_subtasks[i].bands_specified
          /\ a_subtasks[i].expect_bands \subseteq bands \cap a_exclude
          /\ a_result.assigns[i] \in CandidateBands(a_subtasks[i])
          /\ a_result.assigns[i] \notin a_subtasks[i].expect_bands

\* the total of the deltas of class k before the residual credit, for the
\* working set the call uses on its input
TotalMove(k) ==
    SumValues(BandMoveNums(WorkingQueuedNum(FilteredQueuedNum(r_in, k = "gpu"),
                                            FilteredBands(k = "gpu")),
                           FilteredBands(k = "gpu")))

\* C29: the total of the deltas of a device class before the residual credit
\* is never positive, so the assertion total_move <= 0 never fails, with the
\* whole input as working set and with the unready bands only.
C29_TotalMoveNotPositive ==
    r_result.err # "pending" =>
        /\ r_result.err # "AssertionError"
        /\ \A k \in Classes : ReadyOf(k) # {} => TotalMove(k) <= 0
\* a call on the unready bands only, with a negative total that the credit
\* of line 291 balances
C29_Witness ==
    /\ Returned
    /\ OnlyUnready("numa")
    /\ ReadyOf("numa") # {}
    /\ TotalMove("numa") < 0
    /\ SumValues(r_result.moves) = 0

\* the part of a map on the bands of class k
OnClass(m, k) == [b \in {x \in DOMAIN m : x.kind = k} |-> m[b]]
\* what a call on input q gives for the bands of class k: the deltas of
\* each map it can return, or the error it raises
ClassOutcomes(q, k) ==
    { IF r.err = "none" THEN [err |-> "none", moves |-> OnClass(r.moves, k)]
      ELSE [err |-> r.err, moves |-> <<>>]
      : r \in ReassignSubtasks(q) }
\* the other class
Other(k) == IF k = "numa" THEN "gpu" ELSE "numa"
\* the inputs over the bands of class k
ClassQueuedNums(k) ==
    UNION {[S -> 0..MaxQueued] : S \in SUBSET {b \in AllBands : b.kind = k}}
\* the inputs that differ from q on the bands of the other class only
VaryClass(q, k) ==
    {DictUpdate(OnClass(q, k), g) : g \in ClassQueuedNums(Other(k))}

\* C30: the device classes are treated independently: for a fixed band list
\* the deltas returned for the bands of a class are the same, up to the
\* random choice of the credited band, for all inputs that differ in the
\* counts of the bands of the other class only.
C30_ClassesIndependent ==
    r_result.err # "pending" =>
        \A k \in Classes :
            LET given == ClassOutcomes(r_in, k)
            IN  \A p \in VaryClass(r_in, k) : ClassOutcomes(p, k) = given

----------------------------------------------------------------------------
(* Properties of the band list and its indexes *)

\* how often band b is in the list seq
CountIn(seq, b) == Cardinality({i \in DOMAIN seq : seq[i] = b})
\* how often band b is in the lists of the index under the keys in ks
RECURSIVE CountUnder(_, _, _)
CountUnder(index, ks, b) ==
    IF ks = {} THEN 0
    ELSE LET k == CHOOSE x \in ks : TRUE
         IN  CountIn(index[k], b) + CountUnder(index, ks \ {k}, b)
\* the device class a band's name prefix stands for
PrefixClass(b) == IF b.kind = "numa" THEN "numa" ELSE "gpu"

\* C31: the two indexes agree with the band list: each band of the list is
\* exactly once in address_to_bands, under its address, and exactly once in
\* device_type_to_bands, under the class of its name prefix, and the
\* indexes hold no band that is not in the list.
C31_IndexesAgree ==
    /\ \A b \in bands :
          /\ b.addr \in DOMAIN address_to_bands
          /\ CountIn(address_to_bands[b.addr], b) = 1
          /\ CountUnder(address_to_bands, DOMAIN address_to_bands, b) = 1
          /\ PrefixClass(b) \in DOMAIN device_type_to_bands
          /\ CountIn(device_type_to_bands[PrefixClass(b)], b) = 1
          /\ CountUnder(device_type_to_bands, DOMAIN device_type_to_bands, b) = 1
    /\ \A a \in DOMAIN address_to_bands :
          Range(address_to_bands[a]) \subseteq bands
    /\ \A k \in DOMAIN device_type_to_bands :
          Range(device_type_to_bands[k]) \subseteq bands
\* a band list of two addresses whose names interleave, of both classes
C31_Witness ==
    /\ bands = AllBands
    /\ Len(address_to_bands["A"]) = 3
    /\ Len(address_to_bands["B"]) = 2
    /\ Len(device_type_to_bands["gpu"]) = 2

\* C32: every band assign_subtasks returns is in the band list the Assigner
\* holds when the call returns, also when the band list was replaced while
\* the call was suspended in the chunk-meta lookup.
C32_ReturnedBandsInList ==
    Succeeded => \A i \in Indices : a_result.assigns[i] \in bands

\* C33: no band is asked to shed more subtasks than the input says it
\* holds: every delta of the returned map is at least minus the input count
\* of its band, so the counts after the move are not negative, and an
\* unready band of the map is left with none.
C33_NoOverShedding ==
    Returned =>
        \A b \in DOMAIN r_result.moves :
            /\ r_result.moves[b] >= 0 - CountOf(b)
            /\ b \notin bands => CountOf(b) + r_result.moves[b] = 0
\* a ready band sheds a part of its count and an unready band all of it
C33_Witness ==
    /\ Returned
    /\ \E b \in DOMAIN r_result.moves \cap bands :
          r_result.moves[b] < 0 /\ CountOf(b) + r_result.moves[b] > 0
    /\ \E b \in DOMAIN r_result.moves \ bands :
          r_result.moves[b] < 0 /\ CountOf(b) + r_result.moves[b] = 0

\* C34: when the working set is the whole input, the counts after the move
\* are the mean on every ready CPU band but at most one, which holds the
\* mean plus the residual, and the residual is smaller than the number of
\* ready CPU bands.
C34_EvenAfterMove ==
    (Returned /\ ReadyOf("numa") # {} /\ WholeInput("numa")) =>
        LET n == Cardinality(ReadyOf("numa"))
            total == TotalOf(InputOf("numa"))
            residual == total - n * (total \div n)
        IN  /\ residual >= 0
            /\ residual < n
            /\ \E c \in ReadyOf("numa") :
                  \A b \in ReadyOf("numa") :
                      CountOf(b) + DeltaOf(b)
                          = (total \div n) + (IF b = c THEN residual ELSE 0)
\* three ready CPU bands, four subtasks: two bands end with one subtask and
\* one band with two
C34_Witness ==
    /\ Returned
    /\ Cardinality(ReadyOf("numa")) = 3
    /\ WholeInput("numa")
    /\ TotalOf(InputOf("numa")) = 4
    /\ \E c \in ReadyOf("numa") :
          /\ CountOf(c) + DeltaOf(c) = 2
          /\ \A b \in ReadyOf("numa") \ {c} : CountOf(b) + DeltaOf(b) = 1

\* C35: create_session creates the SubtaskManager only when the Assigner and
\* the Queueing actor both exist, registers the session with the autoscaler
\* only when the three actors exist, and a call that raises has not
\* registered the session: during the call the registration changes only in
\* the step that ends it well.
C35_CreateOrder ==
    [][ /\ "manager" \in actors' \ actors
            => {"assigner", "queueing"} \subseteq actors
        /\ (~registered /\ registered') => actors' = SessionActors
        /\ (s_pc \in CreatePhases /\ s_pc' = "idle"
               /\ s_result' = "create_raised") => registered' = registered
        /\ (s_pc \in CreatePhases /\ registered' # registered)
            => s_result' = "created" ]_vars

\* a create_session that went through: three actors, session registered
C35_Witness ==
    /\ s_pc = "idle"
    /\ s_result = "created"
    /\ registered
    /\ actors = SessionActors

\* C36: destroy_session destroys no actor of the session while the session
\* is registered; when it returns none of the three actors exists; and
\* create_session followed by destroy_session leaves the actors as they
\* were before create_session.
C36_DestroyOrder ==
    [][ /\ actors \ actors' # {} => ~registered
        /\ (s_pc = "destroy" /\ s_pc' = "idle" /\ s_result' = "destroyed")
            => actors' = {}
        /\ (s_result = "created" /\ s_pc = "destroy" /\ s_pc' = "idle"
               /\ s_result' = "destroyed") => actors' = s_before ]_vars

\* a destroy_session that went through after a registered session
C36_Witness ==
    /\ s_pc = "idle"
    /\ s_tasks = {}
    /\ s_result = "destroyed"
    /\ actors = {}
    /\ ~registered

\* C37: assign_subtasks called with a non-empty band list and
\* reassign_subtasks leave the band list and both indexes as they are, and
\* neither call changes its arguments: the lazy load is entered only with an
\* empty band list, every other step of assign_subtasks and the step of
\* reassign_subtasks keep _bands, _address_to_bands and
\* _device_type_to_bands, and subtasks (with their expect_bands),
\* exclude_bands and band_to_queued_num are the same from the call to the
\* moment the caller takes the result.
C37_FrameEffects ==
    [][ /\ (a_pc = "idle" /\ a_pc' = "get_all_bands") => bands = {}
        /\ (a_pc' # a_pc /\ a_pc # "get_all_bands") => UNCHANGED assigner_vars
        /\ (a_pc # "idle" /\ a_pc' # "idle")
            => UNCHANGED <<a_subtasks, a_exclude>>
        /\ r_result' # r_result => UNCHANGED assigner_vars
        /\ (r_result.err # "pending" /\ r_result'.err # "pending")
            => r_in' = r_in ]_vars

\* assign_subtasks has returned bands for a subtask with expected bands and
\* a non-empty exclude_bands
C37_Witness ==
    /\ a_pc = "done"
    /\ a_result.err = "none"
    /\ bands # {}
    /\ a_exclude # {}
    /\ a_subtasks[1].expect_bands # {}

\* C38: the map reassign_subtasks returns lists its bands in non-decreasing
\* order of delta over both device classes together: each band once, no
\* band after a band of larger delta, so every band that sheds subtasks
\* comes before every band that receives subtasks.
C38_OrderedByDelta ==
    Returned =>
        \A seq \in ReturnedOrders(r_result.moves) :
            /\ Len(seq) = Cardinality(DOMAIN r_result.moves)
            /\ Range(seq) = DOMAIN r_result.moves
            /\ \A i, j \in DOMAIN seq :
                  i < j => r_result.moves[seq[i]] <= r_result.moves[seq[j]]
            /\ \A i, j \in DOMAIN seq :
                  (r_result.moves[seq[i]] < 0 /\ r_result.moves[seq[j]] > 0)
                      => i < j

\* a returned map in which a CPU band receives and a GPU band sheds
C38_Witness ==
    /\ Returned
    /\ \E c, g \in DOMAIN r_result.moves :
          /\ StartsWith(c, "numa") /\ r_result.moves[c] > 0
          /\ StartsWith(g, "gpu") /\ r_result.moves[g] < 0

====
